---------------------------- MODULE Spec2Model ----------------------------
(***************************************************************************)
(* Model of the hybrid recommendation pipeline of                          *)
(* src/src4/firetv_integration_fixed.py: the cascade of                    *)
(* FireTVRecommendationService.generate_recommendations with its tiers,    *)
(* the result sink (store_recommendations_to_profile) and the TTL cache    *)
(* of CacheManager.                                                        *)
(*                                                                         *)
(* Numbers are fixed point: vote_average and popularity in tenths (8.4 is  *)
(* 84), mood weights in tenths (1.2 is 12), predicted ratings in           *)
(* hundredths (8.50 is 850), similarity_score in units of 0.0001 (0.7 is   *)
(* 7000), cache time in hours.                                             *)
(***************************************************************************)
EXTENDS Integers, Sequences, FiniteSets, TLC

VARIABLES
    pc,               \* position of the running generate_recommendations call
    user_data,        \* the profile passed to generate_recommendations
    fetched,          \* what get_candidate_movies returned
    candidates,       \* local `candidates` of generate_recommendations
    recommendations,  \* local `recommendations` (the running list)
    cf_recs,          \* what generate_collaborative_recommendations returned
    cf_ready,         \* outcome of assess_collaborative_filtering_readiness
    tiers_run,        \* tiers whose body was entered in this call
    tiers_failed,     \* tiers whose exception was caught in this call
    result,           \* the list generate_recommendations returned
    profile_table,    \* rows of the profile's recommendation table
    stored,           \* outcome of store_recommendations_to_profile
    now,              \* datetime.now(), in hours
    tmdb_cache,       \* CacheManager.tmdb_cache
    user_data_cache,  \* CacheManager.user_data_cache
    last_get,         \* the last cache get: its arguments, pre-state and return
    embedding_cache,  \* CacheManager.embedding_cache
    similarity_cache, \* CacheManager.similarity_cache
    cache_dir,        \* the durable tier and the life cycle of the CacheManager
    watched_movies,   \* the watched_movies table: each user's watch events
    last_regen,       \* the last regeneration of a profile's recommendations
    readiness,        \* the last assess_collaborative_filtering_readiness call
    similarity,       \* the last call of the collaborative filtering engine
    last_score,       \* the last candidate scored by the content tiers
    threads           \* the callers sharing a cache (two threads on one CacheManager, or
                      \* two service instances on the cache files): where each one is

cascade_vars == <<pc, user_data, fetched, candidates, recommendations, cf_recs,
                  cf_ready, tiers_run, tiers_failed, result, profile_table, stored>>
cache_vars == <<now, tmdb_cache, user_data_cache, last_get>>
ext_vars == <<embedding_cache, similarity_cache, cache_dir, watched_movies,
              last_regen, readiness, similarity, last_score, threads>>
other_vars == <<cache_dir, watched_movies, last_regen, readiness, similarity, last_score, threads>>
vars == <<cascade_vars, cache_vars, ext_vars>>

None == "None"
\* a number that is absent (a missing dict key, a None where a float is expected)
Absent == 0 - 1

-----------------------------------------------------------------------------
(* Bounds of the model *)

\* largest number of movies the TMDB multi-page fetch hands back
MaxTmdb == 48
\* largest number of items the rating store lets the CF engine predict
MaxPredicted == 52

(* Program constants *)

ENHANCED_BELOW == 20
SIMPLE_BELOW == 15
RANDOM_BELOW == 10
RANDOM_CAP == 30
MAX_RECS == 50
TIER_CAP == 50
MAX_CANDIDATES == 1000
GENRE_LIMIT == 15
GENERAL_LIMIT == 10
RANDOM_SCORE == 7000
SCORE_ONE == 10000
\* 'count': 30 in the dict fetch_user_data builds
DEFAULT_COUNT == 30

-----------------------------------------------------------------------------
(* Sequence helpers *)

Min(a, b) == IF a < b THEN a ELSE b
Max(a, b) == IF a > b THEN a ELSE b
Abs(a) == IF a < 0 THEN -a ELSE a

\* s[:n]
Take(s, n) == SubSeq(s, 1, Min(n, Len(s)))

Ids(s) == {s[i].tmdb_id : i \in 1..Len(s)}

\* a function on 1..n as an explicit tuple
Tuple(f) == f \o <<>>

\* the elements of s at the indexes in keep, in order
KeepIdx(s, keep) ==
    LET Kept(i) == i \in keep
        t == Tuple(s)
        idx == SelectSeq([i \in 1..Len(t) |-> i], Kept)
    IN Tuple([k \in 1..Len(idx) |-> t[idx[k]]])

RECURSIVE Concat(_, _)
Concat(ss, i) == IF i > Len(ss) THEN <<>> ELSE ss[i] \o Concat(ss, i + 1)

\* list.sort(key=similarity_score, reverse=True): stable, descending.
\* An element goes after every higher score and after the equal scores before it.
SortByScoreDesc(s) ==
    LET t == Tuple(s)
        n == Len(t)
        pos == Tuple([i \in 1..n |->
                   1 + Cardinality({j \in 1..n :
                          \/ t[j].similarity_score > t[i].similarity_score
                          \/ /\ t[j].similarity_score = t[i].similarity_score
                             /\ j < i})])
    IN Tuple([p \in 1..n |-> t[CHOOSE i \in 1..n : pos[i] = p]])

-----------------------------------------------------------------------------
(* The catalog the service carries *)

Movie(id, va, pop, gs) ==
    [tmdb_id |-> id, vote_average |-> va, popularity |-> pop, genres |-> gs]

FallbackGenres == {"Action", "Comedy", "Horror", "Science Fiction", "Drama"}

fallback_data(genre) ==
    CASE genre = "Action" ->
           << Movie(550, 84, 952, {"Action", "Drama"}),
              Movie(155, 90, 985, {"Action", "Crime", "Drama"}),
              Movie(603, 87, 938, {"Action", "Science Fiction"}),
              Movie(680, 85, 921, {"Crime", "Drama"}),
              Movie(27205, 84, 879, {"Action", "Science Fiction", "Thriller"}) >>
      [] genre = "Comedy" ->
           << Movie(13, 85, 893, {"Comedy", "Drama"}),
              Movie(19995, 76, 874, {"Action", "Adventure", "Fantasy"}) >>
      [] genre = "Horror" ->
           << Movie(694, 82, 789, {"Horror", "Thriller"}),
              Movie(539, 84, 752, {"Horror", "Mystery", "Thriller"}) >>
      [] genre = "Science Fiction" ->
           << Movie(11, 86, 891, {"Adventure", "Action", "Science Fiction"}) >>
      [] genre = "Drama" ->
           << Movie(278, 93, 967, {"Drama"}),
              Movie(238, 92, 917, {"Crime", "Drama"}),
              Movie(240, 90, 889, {"Crime", "Drama"}) >>
      [] OTHER -> <<>>

emergency_movies ==
    << Movie(278, 93, 967, {"Drama"}),
       Movie(238, 92, 917, {"Crime", "Drama"}),
       Movie(155, 90, 985, {"Action", "Crime", "Drama"}),
       Movie(603, 87, 938, {"Action", "Science Fiction"}),
       Movie(13, 85, 893, {"Comedy", "Drama"}) >>

Moods == {"happy", "sad", "excited", "calm", "angry", "romantic",
          "adventurous", "nostalgic"}

Weights(h, s, e, c, a, r, adv, n) ==
    [m \in Moods |->
        CASE m = "happy" -> h [] m = "sad" -> s [] m = "excited" -> e
          [] m = "calm" -> c [] m = "angry" -> a [] m = "romantic" -> r
          [] m = "adventurous" -> adv [] OTHER -> n]

EmptyConfig == [preferred_genres |-> <<>>, mood_weights |-> [m \in {} |-> 10]]

profile_configs(username) ==
    CASE username = "anshul" ->
           [preferred_genres |-> <<"Action", "Thriller", "Science Fiction", "Adventure">>,
            mood_weights |-> Weights(12, 8, 13, 10, 11, 9, 14, 10)]
      [] username = "shikhar" ->
           [preferred_genres |-> <<"Comedy", "Drama", "Romance", "Family">>,
            mood_weights |-> Weights(13, 11, 10, 12, 7, 14, 9, 12)]
      [] username = "priyanshu" ->
           [preferred_genres |-> <<"Horror", "Mystery", "Adventure", "Thriller">>,
            mood_weights |-> Weights(10, 10, 13, 8, 12, 8, 14, 9)]
      [] username = "shaurya" ->
           [preferred_genres |-> <<"Animation", "Family", "Fantasy", "Adventure">>,
            mood_weights |-> Weights(14, 9, 12, 11, 8, 10, 13, 11)]
      [] OTHER -> EmptyConfig

Profiles == {"anshul", "shikhar", "priyanshu", "shaurya"}

user_id_map(username) ==
    CASE username = "anshul" -> 1 [] username = "shikhar" -> 2
      [] username = "priyanshu" -> 3 [] username = "shaurya" -> 4 [] OTHER -> 1


-----------------------------------------------------------------------------
(* Inputs: the profiles, the catalog provider's answers, the rating store *)

TmdbId(i) == 1000 + i

Usernames == {"anshul", "shikhar", "guest"}

\* 'neutral' is the mood of a user with no mood selection; no profile weighs it
MoodInputs == {"happy", "neutral"}

\* user_history, most recent first
Histories ==
    { <<>>,
      <<TmdbId(1), 550>>,
      <<240, 238, 278>>,
      <<155, 240, 238, 278>>,
      <<19995, 13, 240, 238, 278>> }

\* rating_map: disliked 3.0, good 7.0, loved 9.0, anything else 5.0
RatingValues == {3, 5, 7, 9}

RatingsOf(history) ==
    LET ids == {history[i] : i \in 1..Len(history)}
    IN { [id \in {} |-> 7],
         [id \in ids |-> 7],
         [id \in ids |-> IF id = history[1] THEN 9 ELSE 3] }

\* fetch_user_data: the record get_user_data_from_backend builds
UserData(username, history, ratings, mood) ==
    [user_id |-> user_id_map(username),
     username |-> username,
     user_history |-> history,
     ratings |-> ratings,
     favourite_genres |-> profile_configs(username).preferred_genres,
     mood |-> mood,
     count |-> DEFAULT_COUNT,
     profile_config |-> profile_configs(username)]

History(ud) == {ud.user_history[i] : i \in 1..Len(ud.user_history)}

VoteCycle == <<72, 0, 65, 81, 58>>
PopCycle == <<450, 1200, 0, 80>>
GenreCycle == << {"Action"}, {"Drama", "Comedy"}, {},
                 {"Thriller", "Science Fiction", "Action"} >>

Cyc(s, i) == s[(i % Len(s)) + 1]

TmdbMovie(i) == Movie(TmdbId(i), Cyc(VoteCycle, i), Cyc(PopCycle, i), Cyc(GenreCycle, i))

TmdbCounts == {0, 2, 6, 12, 22, MaxTmdb}

\* The movies the TMDB pages list, in page order: with `dup` the pages repeat
\* an entry and list two movies of the curated catalog.
TmdbPages(n, dup) ==
    (IF dup THEN << Movie(278, 87, 1500, {"Drama", "Crime"}),
                    Movie(155, 85, 1300, {"Action", "Crime", "Drama"}) >>
            ELSE <<>>)
    \o [i \in 1..n |-> TmdbMovie(i)]
    \o (IF dup /\ n > 0 THEN <<TmdbMovie(1)>> ELSE <<>>)

-----------------------------------------------------------------------------
(* Candidate fetch *)

\* mutant: the watched-item test lets every movie through
Unwatched_Any(m, user_history) == TRUE

\* `m['tmdb_id'] not in user_history`
Unwatched(m, user_history) == m.tmdb_id \notin user_history

FilterUnwatched(s, user_history) ==
    KeepIdx(s, {i \in 1..Len(s) : Unwatched(s[i], user_history)})

\* keep the first occurrence of every tmdb_id
Dedup(s) ==
    KeepIdx(s, {i \in 1..Len(s) : \A j \in 1..(i - 1) : s[j].tmdb_id # s[i].tmdb_id})

_get_fallback_movies_by_genre(genre, user_history, limit) ==
    Take(FilterUnwatched(fallback_data(genre), user_history), limit)

_try_fetch_tmdb_candidates(pages, user_history) ==
    Dedup(FilterUnwatched(pages, user_history))

\* tmdb.pages is the page listing; tmdb.ok is FALSE when the multi-page fetch raises
get_candidate_movies(ud, tmdb) ==
    LET user_history == History(ud)
        genres == ud.favourite_genres
        curated == Concat([g \in 1..Len(genres) |->
                              _get_fallback_movies_by_genre(genres[g], user_history,
                                                            GENRE_LIMIT)], 1)
                   \o _get_fallback_movies_by_genre("Drama", user_history, GENERAL_LIMIT)
        tmdb_candidates == IF ~tmdb.ok THEN <<>>
                           ELSE _try_fetch_tmdb_candidates(tmdb.pages, user_history)
        existing_ids == Ids(curated)
        new_candidates ==
            KeepIdx(tmdb_candidates,
                    {i \in 1..Len(tmdb_candidates) :
                        tmdb_candidates[i].tmdb_id \notin existing_ids})
    IN Take(Dedup(curated \o new_candidates), MAX_CANDIDATES)

\* mutant: the emergency catalog is handed out without the watched filter
_get_emergency_fallback_movies_Unfiltered(ud) == emergency_movies

_get_emergency_fallback_movies(ud) == FilterUnwatched(emergency_movies, History(ud))

-----------------------------------------------------------------------------
(* Content scoring.  A score is kept exact as a fraction and rounded once,  *)
(* where the code rounds to four decimals (halves round up here).           *)

\* a recommendation; recommendation_reason keeps the tier its text names
Rec(movie, score, reason) ==
    [tmdb_id |-> movie.tmdb_id, similarity_score |-> score,
     recommendation_reason |-> reason]

\* mood_weights.get(mood, 1.0)
MoodMultiplier(ud) ==
    LET mood_weights == ud.profile_config.mood_weights
    IN IF ud.mood \in DOMAIN mood_weights THEN mood_weights[ud.mood] ELSE 10

FavoriteGenres(ud) == {ud.favourite_genres[i] : i \in 1..Len(ud.favourite_genres)}

GenreOverlap(movie, ud) == Cardinality(movie.genres \cap FavoriteGenres(ud))

RECURSIVE SumOver(_, _)
SumOver(f, S) == IF S = {} THEN 0
                 ELSE LET x == CHOOSE y \in S : TRUE IN f[x] + SumOver(f, S \ {x})

\* mutant: the score is rounded without min(score, 1.0)
RoundClamp_NoCap(num, den) == (2 * num + den) \div (2 * den)

\* round(min(num / den, 1.0), 4) in units of 0.0001
RoundClamp(num, den) == Min((2 * num + den) \div (2 * den), SCORE_ONE)

\* _calculate_enhanced_movie_score, as a fraction <<numerator, denominator>>;
\* content_score is Absent without a user content embedding, else in hundredths
_calculate_enhanced_movie_score(movie, ud, content_score) ==
    LET quality == IF movie.vote_average > 0 THEN movie.vote_average * 30 ELSE 0
        popular == IF movie.popularity > 0 THEN Min(movie.popularity, 1000) * 2 ELSE 0
        content == IF content_score # Absent THEN content_score * 30 ELSE 0
        cnt == Cardinality(DOMAIN ud.ratings)
        total == SumOver(ud.ratings, DOMAIN ud.ratings)
        \* 50 * cnt * max(0, 1 - |vote_average - avg_user_rating| / 5)
        rating == Max(0, 50 * cnt - Abs(movie.vote_average * cnt - 10 * total))
    IN IF cnt > 0
       THEN <<(quality + popular + content) * cnt + 40 * rating, cnt>>
       ELSE <<quality + popular + content, 1>>

\* the similarity_score generate_enhanced_content_recommendations gives a movie
EnhancedScore(movie, ud, content_score) ==
    LET base == _calculate_enhanced_movie_score(movie, ud, content_score)
        f == Cardinality(FavoriteGenres(ud))
        withGenre == IF f > 0
                     THEN <<base[1] * f + 2000 * GenreOverlap(movie, ud) * base[2],
                            base[2] * f>>
                     ELSE base
    IN RoundClamp(withGenre[1] * MoodMultiplier(ud), withGenre[2] * 10)

\* mutant: the genre match weighs 0.2 in the simple score
SimpleScore_GenreFifth(movie, ud) ==
    LET quality == IF movie.vote_average > 0 THEN movie.vote_average * 40 ELSE 2800
        popular == IF movie.popularity > 0 THEN Min(movie.popularity, 1000) * 2 ELSE 1000
        f == Cardinality(FavoriteGenres(ud))
        withGenre == IF f > 0
                     THEN <<(quality + popular) * f + 2000 * GenreOverlap(movie, ud), f>>
                     ELSE <<quality + popular + 2000, 1>>
    IN RoundClamp(withGenre[1] * MoodMultiplier(ud), withGenre[2] * 10)

\* the similarity_score _generate_simple_content_recommendations gives a movie
SimpleScore(movie, ud) ==
    LET quality == IF movie.vote_average > 0 THEN movie.vote_average * 40 ELSE 2800
        popular == IF movie.popularity > 0 THEN Min(movie.popularity, 1000) * 2 ELSE 1000
        f == Cardinality(FavoriteGenres(ud))
        withGenre == IF f > 0
                     THEN <<(quality + popular) * f + 4000 * GenreOverlap(movie, ud), f>>
                     ELSE <<quality + popular + 2000, 1>>
    IN RoundClamp(withGenre[1] * MoodMultiplier(ud), withGenre[2] * 10)

ContentCycle == <<50, 83, 12, 100, 0>>

\* _calculate_content_similarity of the i-th candidate, in hundredths
ContentSimilarity(i) == Cyc(ContentCycle, i)

\* embedded: a user content embedding was obtained (_get_user_content_preferences)
generate_enhanced_content_recommendations(ud, cands, embedded) ==
    LET keep == {i \in 1..Len(cands) : Unwatched(cands[i], History(ud))}
        scored == [i \in 1..Len(cands) |->
                      Rec(cands[i],
                          EnhancedScore(cands[i], ud,
                                        IF embedded THEN ContentSimilarity(i) ELSE Absent),
                          "enhanced")]
    IN Take(SortByScoreDesc(KeepIdx(scored, keep)), TIER_CAP)

_generate_simple_content_recommendations(ud, cands) ==
    LET keep == {i \in 1..Len(cands) : Unwatched(cands[i], History(ud))}
        scored == [i \in 1..Len(cands) |->
                      Rec(cands[i], SimpleScore(cands[i], ud), "simple")]
    IN Take(SortByScoreDesc(KeepIdx(scored, keep)), TIER_CAP)

-----------------------------------------------------------------------------
(* Collaborative tier *)

UserCycle == <<850, Absent, 0, 620, 910, Absent>>
ItemCycle == <<700, 400, Absent, Absent, 0, 550>>

PredictedCounts == {1, 3, 12, 25, MaxPredicted}

\* What the CF engine predicts for the candidates: one entry per predicted item,
\* in the iteration order of all_predicted_items; a score is Absent when that
\* method has no prediction for the item.
Predictions(cands, k) ==
    [j \in 1..Min(k, Len(cands)) |->
        [movie_id |-> cands[Len(cands) - j + 1].tmdb_id,
         user_score |-> Cyc(UserCycle, j),
         item_score |-> Cyc(ItemCycle, j)]]

\* predictions.get(movie_id, 0)
GetOrZero(x) == IF x = Absent THEN 0 ELSE x

\* combined_score, in thousandths of a rating point
CombinedScore(user_score, item_score) ==
    IF user_score > 0 /\ item_score > 0 THEN 6 * user_score + 4 * item_score
    ELSE IF user_score > 0 THEN 8 * user_score
    ELSE IF item_score > 0 THEN 8 * item_score
    ELSE 0

\* next((m for m in candidates if m['tmdb_id'] == movie_id), None) is not None
HasMovieDetails(cands, movie_id) == movie_id \in Ids(cands)

\* the body of generate_collaborative_recommendations after the matrix is built
generate_collaborative_recommendations(ud, cands, preds) ==
    LET combined == [j \in 1..Len(preds) |->
                        [tmdb_id |-> preds[j].movie_id,
                         \* round(predicted_rating / 10.0, 4)
                         similarity_score |->
                             CombinedScore(GetOrZero(preds[j].user_score),
                                           GetOrZero(preds[j].item_score)),
                         recommendation_reason |-> "collaborative"]]
        sorted_predictions == SortByScoreDesc(combined)
        keep == {j \in 1..Len(sorted_predictions) :
                    /\ Unwatched(sorted_predictions[j], History(ud))
                    /\ HasMovieDetails(cands, sorted_predictions[j].tmdb_id)}
    IN Take(KeepIdx(sorted_predictions, keep), TIER_CAP)

MIN_USERS_FOR_CF == 4
MIN_RATINGS_PER_USER == 3
MIN_TOTAL_RATINGS == 15
MIN_ACTIVE_USERS == 2

\* mutant: the user count must exceed the minimum
UseCollaborative_Strict(total_users, total_ratings, users_with_enough_ratings, ud) ==
    /\ total_users > MIN_USERS_FOR_CF
    /\ total_ratings >= MIN_TOTAL_RATINGS
    /\ users_with_enough_ratings >= MIN_ACTIVE_USERS
    /\ Cardinality(DOMAIN ud.ratings) >= MIN_RATINGS_PER_USER

\* use_collaborative of assess_collaborative_filtering_readiness
UseCollaborative(total_users, total_ratings, users_with_enough_ratings, ud) ==
    /\ total_users >= MIN_USERS_FOR_CF
    /\ total_ratings >= MIN_TOTAL_RATINGS
    /\ users_with_enough_ratings >= MIN_ACTIVE_USERS
    /\ Cardinality(DOMAIN ud.ratings) >= MIN_RATINGS_PER_USER

-----------------------------------------------------------------------------
(* The cascade of generate_recommendations *)

\* mutant: the merge loop without its `len(recommendations) < 50` test
Merge_NoCap(recs, tier_recs) ==
    recs \o KeepIdx(tier_recs, {i \in 1..Len(tier_recs) :
                                   tier_recs[i].tmdb_id \notin Ids(recs)})

\* "Merge avoiding duplicates": existing_ids is taken once, before the loop
Merge(recs, tier_recs) ==
    LET existing_ids == Ids(recs)
        fresh == KeepIdx(tier_recs,
                         {i \in 1..Len(tier_recs) :
                             tier_recs[i].tmdb_id \notin existing_ids})
    IN recs \o Take(fresh, Max(0, MAX_RECS - Len(recs)))

\* mutant: the last resort stops at 5 entries instead of 30
RandomFallback_Short(recs, cands, ud) ==
    LET picks == FilterUnwatched(cands, History(ud))
        added == [i \in 1..Len(picks) |-> Rec(picks[i], RANDOM_SCORE, "random")]
    IN recs \o Take(added, Max(0, 5 - Len(recs)))

\* "Absolute last resort": every unwatched candidate, while fewer than 30
RandomFallback(recs, cands, ud) ==
    LET picks == FilterUnwatched(cands, History(ud))
        added == [i \in 1..Len(picks) |-> Rec(picks[i], RANDOM_SCORE, "random")]
    IN recs \o Take(added, Max(0, RANDOM_CAP - Len(recs)))

\* mutant: a tier's exception is not caught and leaves generate_recommendations
ExceptClause_Propagates(tier, raised) ==
    IF raised THEN "Raised"
    ELSE CASE tier = "collaborative" -> "TryEnhancedContent"
           [] tier = "enhanced" -> "TrySimpleContent"
           [] tier = "simple" -> "TryRandomFallback"

\* mutant: a tier whose body raised is entered again
ExceptClause_Retry(tier, raised) ==
    IF raised
    THEN CASE tier = "collaborative" -> "TryCollaborative"
           [] tier = "enhanced" -> "TryEnhancedContent"
           [] tier = "simple" -> "TrySimpleContent"
    ELSE CASE tier = "collaborative" -> "TryEnhancedContent"
           [] tier = "enhanced" -> "TrySimpleContent"
           [] tier = "simple" -> "TryRandomFallback"

\* Where control goes when the try statement of a tier is left: every tier's
\* body sits in `try: ... except Exception as e: <log>`, so control continues
\* with the statement after it whether or not the body raised.
ExceptClause(tier, raised) ==
    CASE tier = "collaborative" -> "TryEnhancedContent"
      [] tier = "enhanced" -> "TrySimpleContent"
      [] tier = "simple" -> "TryRandomFallback"

\* mutant: the collaborative tier is entered whatever the assessment says
CollaborativeGate_Open(use_collaborative) == TRUE

\* line 1252: if cf_readiness['use_collaborative']
CollaborativeGate(use_collaborative) == use_collaborative

\* mutant: the simple-content tier is entered below 10, like the last resort
TierGate_SimpleLate(tier, recs) ==
    CASE tier = "enhanced" -> Len(recs) < ENHANCED_BELOW
      [] tier = "simple" -> Len(recs) < RANDOM_BELOW
      [] tier = "random" -> Len(recs) < RANDOM_BELOW

\* if len(recommendations) < 20 / < 15 / < 10
TierGate(tier, recs) ==
    CASE tier = "enhanced" -> Len(recs) < ENHANCED_BELOW
      [] tier = "simple" -> Len(recs) < SIMPLE_BELOW
      [] tier = "random" -> Len(recs) < RANDOM_BELOW

\* A row of the profile table; rows are keyed by tmdb_id (ON CONFLICT (tmdb_id))
\* (reduced: how many times ' (Reduced due to dislike)' was appended to the
\* reason of the row)
Row(rec) == [similarity_score |-> rec.similarity_score,
             recommendation_reason |-> rec.recommendation_reason,
             reduced |-> 0,
             is_active |-> TRUE]

\* mutant: the active rows are not deleted before the upsert
DeleteActive_None(table) == table

\* DELETE FROM table WHERE is_active = TRUE
DeleteActive(table) ==
    [id \in {x \in DOMAIN table : ~table[x].is_active} |-> table[id]]

\* INSERT ... ON CONFLICT (tmdb_id) DO UPDATE SET similarity_score = EXCLUDED...,
\* is_active = TRUE, for each rec in order: the last rec of a tmdb_id decides
Upsert(table, recs) ==
    LET t == Tuple(recs)
        last(id) == CHOOSE i \in 1..Len(t) :
                       /\ t[i].tmdb_id = id
                       /\ \A j \in (i + 1)..Len(t) : t[j].tmdb_id # id
    IN [id \in DOMAIN table \cup Ids(t) |->
           IF id \in Ids(t) THEN Row(t[last(id)]) ELSE table[id]]

\* mutant: the statements executed before the failure stay
Rollback_Keeps(committed, working) == working

\* conn.rollback(), line 1461: the table is what the last commit left
Rollback(committed, working) == committed

\* the table after a committed store_recommendations_to_profile
store_recommendations_to_profile(table, recs) == Upsert(DeleteActive(table), recs)

\* rows left by an earlier refresh: one active, one deactivated by a dislike
PriorTable ==
    (278 :> [similarity_score |-> 5000, recommendation_reason |-> "simple",
             reduced |-> 0, is_active |-> TRUE])
    @@ (550 :> [similarity_score |-> 6000, recommendation_reason |-> "simple",
                reduced |-> 0, is_active |-> FALSE])

EmptyTable == [id \in {} |-> None]

\* The durable tier: whether the cache directory can be made, whether the
\* pickle files can be read and written, and what the files hold (`saved` is
\* FALSE while no file exists); phase is the life of the CacheManager object.
CacheDir(phase, mkdir_ok, load_ok, save_ok, saved, files) ==
    [phase |-> phase, mkdir_ok |-> mkdir_ok, load_ok |-> load_ok, save_ok |-> save_ok,
     saved |-> saved, files |-> files]

NoFiles == [tmdb_cache |-> EmptyTable, embedding_cache |-> EmptyTable,
            similarity_cache |-> EmptyTable, user_data_cache |-> EmptyTable]

\* a constructed CacheManager over a working, empty cache directory
ReadyDir == CacheDir("constructed", TRUE, TRUE, TRUE, FALSE, NoFiles)
NoGet == [op |-> "none"]

Init ==
    /\ pc = "Start"
    /\ \E username \in Usernames, mood \in MoodInputs, history \in Histories :
         \E ratings \in RatingsOf(history) :
            user_data = UserData(username, history, ratings, mood)
    /\ fetched = <<>>
    /\ candidates = <<>>
    /\ recommendations = <<>>
    /\ cf_recs = <<>>
    /\ cf_ready = "unknown"
    /\ tiers_run = {}
    /\ tiers_failed = {}
    /\ result = <<>>
    /\ profile_table = PriorTable
    /\ stored = "unknown"
    /\ now = 0
    /\ tmdb_cache = EmptyTable
    /\ user_data_cache = EmptyTable
    /\ last_get = NoGet
    /\ embedding_cache = EmptyTable
    /\ similarity_cache = EmptyTable
    /\ cache_dir = ReadyDir
    /\ watched_movies = EmptyTable
    /\ last_regen = NoGet
    /\ readiness = [outcome |-> "none"]
    /\ similarity = NoGet
    /\ last_score = NoGet
    /\ threads = NoGet

\* lines 1237-1244
Start ==
    /\ pc = "Start"
    /\ \E tmdb \in {[ok |-> FALSE, pages |-> <<>>]}
                     \cup {[ok |-> TRUE, pages |-> TmdbPages(n, dup)] :
                              n \in TmdbCounts, dup \in BOOLEAN} :
          /\ fetched' = get_candidate_movies(user_data, tmdb)
          /\ candidates' = IF fetched' = <<>>
                           THEN _get_emergency_fallback_movies(user_data)
                           ELSE fetched'
    /\ pc' = "TryCollaborative"
    /\ UNCHANGED <<user_data, recommendations, cf_recs, cf_ready, tiers_run,
                   tiers_failed, result, profile_table, stored>>
    /\ UNCHANGED cache_vars
    /\ UNCHANGED ext_vars

\* lines 1246-1262
TryCollaborative ==
    /\ pc = "TryCollaborative"
    /\ \/ \* the readiness assessment raises (no database connection)
          /\ cf_ready' = "raised"
          /\ tiers_failed' = tiers_failed \cup {"collaborative"}
          /\ UNCHANGED <<recommendations, cf_recs, tiers_run>>
       \/ \E total_users \in {3, 4}, total_ratings \in {14, 15},
             users_with_enough_ratings \in {1, 2} :
            IF CollaborativeGate(UseCollaborative(total_users, total_ratings,
                                                  users_with_enough_ratings, user_data))
            THEN /\ cf_ready' = (IF UseCollaborative(total_users, total_ratings,
                                                     users_with_enough_ratings, user_data)
                                 THEN "yes" ELSE "no")
                 /\ tiers_run' = tiers_run \cup {"collaborative"}
                 /\ \/ \* generate_collaborative_recommendations raises
                       /\ tiers_failed' = tiers_failed \cup {"collaborative"}
                       /\ UNCHANGED <<recommendations, cf_recs>>
                    \/ \* empty rating matrix, or an error caught inside: []
                       /\ cf_recs' = <<>>
                       /\ recommendations' = <<>>
                       /\ UNCHANGED tiers_failed
                    \/ \E k \in PredictedCounts :
                         /\ cf_recs' = generate_collaborative_recommendations(
                                           user_data, candidates,
                                           Predictions(candidates, k))
                         /\ recommendations' = cf_recs'
                         /\ UNCHANGED tiers_failed
            ELSE /\ cf_ready' = "no"
                 /\ UNCHANGED <<recommendations, cf_recs, tiers_run, tiers_failed>>
    /\ pc' = ExceptClause("collaborative", tiers_failed' # tiers_failed)
    /\ UNCHANGED <<user_data, fetched, candidates, result, profile_table, stored>>
    /\ UNCHANGED cache_vars
    /\ UNCHANGED ext_vars

\* lines 1264-1277
TryEnhancedContent ==
    /\ pc = "TryEnhancedContent"
    /\ IF TierGate("enhanced", recommendations)
       THEN /\ tiers_run' = tiers_run \cup {"enhanced"}
            /\ \/ /\ tiers_failed' = tiers_failed \cup {"enhanced"}
                  /\ UNCHANGED recommendations
               \/ \E embedded \in BOOLEAN :
                    /\ embedded => user_data.user_history # <<>>
                    /\ recommendations' =
                          Merge(recommendations,
                                generate_enhanced_content_recommendations(
                                    user_data, candidates, embedded))
                    /\ UNCHANGED tiers_failed
       ELSE UNCHANGED <<recommendations, tiers_run, tiers_failed>>
    /\ pc' = ExceptClause("enhanced", tiers_failed' # tiers_failed)
    /\ UNCHANGED <<user_data, fetched, candidates, cf_recs, cf_ready, result,
                   profile_table, stored>>
    /\ UNCHANGED cache_vars
    /\ UNCHANGED ext_vars

\* lines 1279-1292
TrySimpleContent ==
    /\ pc = "TrySimpleContent"
    /\ IF TierGate("simple", recommendations)
       THEN /\ tiers_run' = tiers_run \cup {"simple"}
            /\ \/ /\ tiers_failed' = tiers_failed \cup {"simple"}
                  /\ UNCHANGED recommendations
               \/ /\ recommendations' =
                        Merge(recommendations,
                              _generate_simple_content_recommendations(
                                  user_data, candidates))
                  /\ UNCHANGED tiers_failed
       ELSE UNCHANGED <<recommendations, tiers_run, tiers_failed>>
    /\ pc' = ExceptClause("simple", tiers_failed' # tiers_failed)
    /\ UNCHANGED <<user_data, fetched, candidates, cf_recs, cf_ready, result,
                   profile_table, stored>>
    /\ UNCHANGED cache_vars
    /\ UNCHANGED ext_vars

\* lines 1294-1311
TryRandomFallback ==
    /\ pc = "TryRandomFallback"
    /\ IF TierGate("random", recommendations)
       THEN /\ tiers_run' = tiers_run \cup {"random"}
            /\ recommendations' = RandomFallback(recommendations, candidates, user_data)
       ELSE UNCHANGED <<recommendations, tiers_run>>
    /\ pc' = "Done"
    /\ UNCHANGED <<user_data, fetched, candidates, cf_recs, cf_ready, tiers_failed,
                   result, profile_table, stored>>
    /\ UNCHANGED cache_vars
    /\ UNCHANGED ext_vars

\* line 1316: return recommendations[:50]
Done ==
    /\ pc = "Done"
    /\ result' = Take(recommendations, MAX_RECS)
    /\ pc' = "Returned"
    /\ UNCHANGED <<user_data, fetched, candidates, recommendations, cf_recs, cf_ready,
                   tiers_run, tiers_failed, profile_table, stored>>
    /\ UNCHANGED cache_vars
    /\ UNCHANGED ext_vars

\* refresh_recommendations_for_profile, lines 1512-1522, with
\* store_recommendations_to_profile, lines 1390-1465
Store ==
    /\ pc = "Returned"
    /\ IF result = <<>>
       THEN \* "No recommendations generated": nothing is stored
            /\ stored' = "skipped"
            /\ UNCHANGED profile_table
       ELSE IF user_data.username \notin Profiles
       THEN \* "Unknown profile"
            /\ stored' = "False"
            /\ UNCHANGED profile_table
       ELSE \/ \* get_db_connection raises
               /\ stored' = "raised"
               /\ UNCHANGED profile_table
            \/ \* the first or the last insert fails after the delete: rollback
               \E failing \in {1, Len(result)} :
                  /\ stored' = "False"
                  /\ profile_table' =
                        Rollback(profile_table,
                                 Upsert(DeleteActive(profile_table),
                                        Take(result, failing - 1)))
            \/ /\ stored' = "True"
               /\ profile_table' = store_recommendations_to_profile(profile_table, result)
    /\ pc' = "Stored"
    /\ UNCHANGED <<user_data, fetched, candidates, recommendations, cf_recs, cf_ready,
                   tiers_run, tiers_failed, result>>
    /\ UNCHANGED cache_vars
    /\ UNCHANGED ext_vars

Next == Start \/ TryCollaborative \/ TryEnhancedContent \/ TrySimpleContent
          \/ TryRandomFallback \/ Done \/ Store

Spec == Init /\ [][Next]_vars

\* generate_recommendations is straight-line code whose loops run over the
\* finite candidate list, so a call that has started keeps taking its steps
SpecCascade == Init /\ [][Next]_vars /\ WF_vars(Next)

-----------------------------------------------------------------------------
(* CacheManager: the in-memory TTL caches.  Time is in hours. *)

\* the clock runs from 0 to MaxClock
MaxClock == 26

TTL_HOURS == 24
USER_TTL_HOURS == 1

\* cache keys f"movie_{movie_id}" and f"user_{username}"
MovieIds == {155}
CacheUsers == {"anshul"}

\* what the upstream (TMDB, the user database) answers at the time of a fetch
Payloads == {"v1", "v2"}

Entry(data, timestamp) == [data |-> data, timestamp |-> timestamp]

\* mutant: an entry exactly one TTL old still counts as valid
_is_cache_valid_Inclusive(timestamp, clock) == clock - timestamp <= TTL_HOURS

\* _is_cache_valid: datetime.now() - timestamp < self.ttl
_is_cache_valid(timestamp, clock) == clock - timestamp < TTL_HOURS

\* get_user_data: datetime.now() - entry['timestamp'] < timedelta(hours=1)
UserDataValid(timestamp, clock) == clock - timestamp < USER_TTL_HOURS

\* del cache[key]
Remove(cache, keys) == [k \in DOMAIN cache \ keys |-> cache[k]]

\* cache[key] = {'data': data, 'timestamp': datetime.now()}
Put(cache, key, data, clock) ==
    [k \in DOMAIN cache \cup {key} |-> IF k = key THEN Entry(data, clock) ELSE cache[k]]

\* What a get saw and gave back: the entry under the key before the call (if
\* any) with its age, the outcome of the refetch ("none" when nothing was
\* fetched) and the value returned.
GetRecord(op, key, cache, clock, fetch, ret) ==
    [op |-> op, key |-> key,
     had_entry |-> key \in DOMAIN cache,
     entry_data |-> IF key \in DOMAIN cache THEN cache[key].data ELSE None,
     age |-> IF key \in DOMAIN cache THEN clock - cache[key].timestamp ELSE 0,
     fetch |-> fetch, ret |-> ret]

InitCache ==
    /\ pc = "idle"
    /\ user_data = UserData("anshul", <<>>, [id \in {} |-> 7], "neutral")
    /\ fetched = <<>>
    /\ candidates = <<>>
    /\ recommendations = <<>>
    /\ cf_recs = <<>>
    /\ cf_ready = "unknown"
    /\ tiers_run = {}
    /\ tiers_failed = {}
    /\ result = <<>>
    /\ profile_table = PriorTable
    /\ stored = "unknown"
    /\ now = 0
    /\ tmdb_cache = EmptyTable
    /\ user_data_cache = EmptyTable
    /\ last_get = NoGet
    /\ embedding_cache = EmptyTable
    /\ similarity_cache = EmptyTable
    /\ cache_dir = ReadyDir
    /\ watched_movies = EmptyTable
    /\ last_regen = NoGet
    /\ readiness = [outcome |-> "none"]
    /\ similarity = NoGet
    /\ last_score = NoGet
    /\ threads = NoGet

\* time passes
Tick ==
    /\ now < MaxClock
    /\ now' = now + 1
    /\ last_get' = NoGet
    /\ UNCHANGED <<tmdb_cache, user_data_cache>>
    /\ UNCHANGED cascade_vars
    /\ UNCHANGED ext_vars

\* lines 129-157
get_tmdb_movie ==
    \E movie_id \in MovieIds :
       /\ IF /\ movie_id \in DOMAIN tmdb_cache
             /\ _is_cache_valid(tmdb_cache[movie_id].timestamp, now)
          THEN /\ last_get' = GetRecord("get_tmdb_movie", movie_id, tmdb_cache, now,
                                        "none", tmdb_cache[movie_id].data)
               /\ UNCHANGED tmdb_cache
          ELSE \/ \* status 200
                  \E movie_data \in Payloads :
                     /\ tmdb_cache' = Put(tmdb_cache, movie_id, movie_data, now)
                     /\ last_get' = GetRecord("get_tmdb_movie", movie_id, tmdb_cache,
                                              now, "ok", movie_data)
               \/ \* another status, or requests.get raises
                  /\ UNCHANGED tmdb_cache
                  /\ last_get' = GetRecord("get_tmdb_movie", movie_id, tmdb_cache, now,
                                           "failed", None)
       /\ UNCHANGED <<now, user_data_cache>>
       /\ UNCHANGED cascade_vars
       /\ UNCHANGED ext_vars

\* lines 278-303
get_user_data ==
    \E username \in CacheUsers :
       /\ IF /\ username \in DOMAIN user_data_cache
             /\ UserDataValid(user_data_cache[username].timestamp, now)
          THEN /\ last_get' = GetRecord("get_user_data", username, user_data_cache, now,
                                        "none", user_data_cache[username].data)
               /\ UNCHANGED user_data_cache
          ELSE \/ \* fetch_func returns a profile
                  \E data \in Payloads :
                     /\ user_data_cache' = Put(user_data_cache, username, data, now)
                     /\ last_get' = GetRecord("get_user_data", username,
                                              user_data_cache, now, "ok", data)
               \/ \* fetch_func returns {}: returned, not cached
                  /\ UNCHANGED user_data_cache
                  /\ last_get' = GetRecord("get_user_data", username, user_data_cache,
                                           now, "empty", "{}")
               \/ \* fetch_func raises
                  /\ UNCHANGED user_data_cache
                  /\ last_get' = GetRecord("get_user_data", username, user_data_cache,
                                           now, "failed", None)
       /\ UNCHANGED <<now, tmdb_cache>>
       /\ UNCHANGED cascade_vars
       /\ UNCHANGED ext_vars

\* the characters of a user name (str is atomic here, so by table)
Chars(username) ==
    CASE username = "anshul" -> <<"a", "n", "s", "h", "u", "l">>
      [] username = "shikhar" -> <<"s", "h", "i", "k", "h", "a", "r">>
      [] username = "1" -> <<"1">>
      [] username = "12" -> <<"1", "2">>

Digit(d) == <<"0", "1", "2", "3", "4", "5", "6", "7", "8", "9">>[d + 1]

\* str(user_id) inside an f-string, as characters
RECURSIVE Str(_)
Str(n) == IF n < 10 THEN <<Digit(n)>> ELSE Str(n \div 10) \o <<Digit(n % 10)>>

\* _generate_key: md5(str(args)).hexdigest(); the digest stands as one token,
\* different for different argument tuples
_generate_key(args) == ToString(args)

\* f"user_emb_{user_id}_{self._generate_key(*movie_texts)}"
UserEmbeddingKey(user_id, movie_texts) ==
    <<"user_emb_">> \o Str(user_id) \o <<"_", _generate_key(movie_texts)>>

\* get_embedding: cache_key = self._generate_key(text)
EmbeddingKey(text) == <<_generate_key(<<text>>)>>

\* Python's `pat in key` on strings
IsSubstring(pat, key) ==
    \E i \in 0..(Len(key) - Len(pat)) : SubSeq(key, i + 1, i + Len(pat)) = pat

\* keys_to_remove = [k for k in embedding_cache.keys() if f"user_emb_{username}" in k]
KeysToRemove(cache, username) ==
    {k \in DOMAIN cache : IsSubstring(<<"user_emb_">> \o Chars(username), k)}

\* lines 305-314
InvalidateUser(username) ==
    /\ user_data_cache' = Remove(user_data_cache, {username})
    /\ embedding_cache' = Remove(embedding_cache, KeysToRemove(embedding_cache, username))
    /\ last_get' = NoGet
    /\ UNCHANGED <<now, tmdb_cache, similarity_cache>>
    /\ UNCHANGED other_vars
    /\ UNCHANGED cascade_vars

invalidate_user_cache == \E username \in CacheUsers : InvalidateUser(username)

\* lines 316-342
Expired(cache, clock, ttl) == {k \in DOMAIN cache : clock - cache[k].timestamp > ttl}

cleanup_expired ==
    /\ tmdb_cache' = Remove(tmdb_cache, Expired(tmdb_cache, now, TTL_HOURS))
    /\ embedding_cache' = Remove(embedding_cache, Expired(embedding_cache, now, TTL_HOURS))
    /\ similarity_cache' = Remove(similarity_cache,
                                  Expired(similarity_cache, now, TTL_HOURS))
    /\ user_data_cache' = Remove(user_data_cache,
                                 Expired(user_data_cache, now, USER_TTL_HOURS))
    /\ last_get' = NoGet
    /\ UNCHANGED now
    /\ UNCHANGED other_vars
    /\ UNCHANGED cascade_vars

NextCache == Tick \/ get_tmdb_movie \/ get_user_data \/ invalidate_user_cache
               \/ cleanup_expired

SpecCache == InitCache /\ [][NextCache]_vars

-----------------------------------------------------------------------------
(* CacheManager: the per-user entries (profile snapshots, user embeddings)  *)
(* next to the item embeddings.                                             *)

\* the moments at which the caches are looked at: around both TTLs
Checkpoints == {0, USER_TTL_HOURS, USER_TTL_HOURS + 1,
                TTL_HOURS - 1, TTL_HOURS, TTL_HOURS + 1}

\* user ids get_user_embeddings is called with
EmbeddingUserIds == {1, 12}

\* user names invalidate_user_cache is called with
InvalidateNames == {"anshul", "1"}

\* movie_texts: f"{title}. {overview}" of the watched movies; [] when none is known
TextLists == { <<>>, <<"Fight Club. An insomniac office worker">> }

ItemTexts == {"Heat. A group of professional bank robbers"}

\* the content model: loaded, or None when the import failed
Models == {"SentenceTransformer", None}

Embedding == "ndarray"

Advance ==
    /\ \E t \in Checkpoints : t > now /\ now' = t
    /\ last_get' = NoGet
    /\ UNCHANGED <<tmdb_cache, user_data_cache>>
    /\ UNCHANGED ext_vars
    /\ UNCHANGED cascade_vars

\* the embedding getters after the key is derived: lines 196-220 and 226-252
GetEmbedding(op, key, computable) ==
    /\ IF /\ key \in DOMAIN embedding_cache
          /\ _is_cache_valid(embedding_cache[key].timestamp, now)
       THEN /\ last_get' = GetRecord(op, key, embedding_cache, now, "none",
                                     embedding_cache[key].data)
            /\ UNCHANGED embedding_cache
       ELSE IF ~computable
       THEN \* model is None (or no movie_texts): return None
            /\ last_get' = GetRecord(op, key, embedding_cache, now, "skipped", None)
            /\ UNCHANGED embedding_cache
       ELSE \/ /\ embedding_cache' = Put(embedding_cache, key, Embedding, now)
               /\ last_get' = GetRecord(op, key, embedding_cache, now, "ok", Embedding)
            \/ \* model.encode raises
               /\ last_get' = GetRecord(op, key, embedding_cache, now, "failed", None)
               /\ UNCHANGED embedding_cache
    /\ UNCHANGED <<now, tmdb_cache, user_data_cache, similarity_cache>>
    /\ UNCHANGED other_vars
    /\ UNCHANGED cascade_vars

\* lines 192-220
get_embedding ==
    \E text \in ItemTexts, model \in Models :
       GetEmbedding("get_embedding", EmbeddingKey(text), model # None)

\* lines 222-252
get_user_embeddings ==
    \E user_id \in EmbeddingUserIds, movie_texts \in TextLists, model \in Models :
       GetEmbedding("get_user_embeddings", UserEmbeddingKey(user_id, movie_texts),
                    model # None /\ movie_texts # <<>>)

\* invalidate_user_cache, called with any of the names
invalidate_user_cache_by_name == \E username \in InvalidateNames : InvalidateUser(username)

NextUserCache == Advance \/ get_embedding \/ get_user_embeddings \/ get_user_data
                   \/ invalidate_user_cache_by_name \/ cleanup_expired

SpecUserCache == InitCache /\ [][NextUserCache]_vars

-----------------------------------------------------------------------------
(* CacheManager: keys derived from the arguments of a request *)

\* the order of the characters that occur in the similarity keys
CharOrder == <<"1", "2", "7", "_", "m", "u">>

Rank(c) == CHOOSE i \in 1..Len(CharOrder) : CharOrder[i] = c

\* a < b on Python strings: lexicographic by character
LexLess(a, b) ==
    \E i \in 1..(Min(Len(a), Len(b)) + 1) :
       /\ \A j \in 1..(i - 1) : a[j] = b[j]
       /\ \/ i > Len(a) /\ i <= Len(b)
          \/ i <= Len(a) /\ i <= Len(b) /\ Rank(a[i]) < Rank(b[i])

\* min(key1, key2) and max(key1, key2)
PyMin(a, b) == IF LexLess(b, a) THEN b ELSE a
PyMax(a, b) == IF LexLess(a, b) THEN b ELSE a

\* f"sim_{min(key1, key2)}_{max(key1, key2)}"
SimilarityKey(key1, key2) == <<"sim_">> \o PyMin(key1, key2) \o <<"_">> \o PyMax(key1, key2)

\* hash(str(params)): str writes the items of the dict in the order they were
\* inserted, and the hash is a function of that text
HashOfStr(params) == ToString(params)

\* f"page_{endpoint}_{page}_{hash(str(params))}"
PageKey(endpoint, page, params) ==
    <<"page_", endpoint, "_">> \o Str(page) \o <<"_", HashOfStr(params)>>

\* the two keys a similarity is asked for: "m_17" (a movie) and "u_2" (a user)
SimKeys == { <<"m", "_", "1", "7">>, <<"u", "_", "2">> }

Endpoints == {"discover/movie"}
Pages == {2}

\* params of a discover request, as the items of the dict in insertion order
ParamLists ==
    { << <<"with_genres", "28">>, <<"sort_by", "popularity.desc">> >>,
      << <<"sort_by", "popularity.desc">>, <<"with_genres", "28">> >> }

\* the same parameter set
SameRequest(p1, p2) ==
    {p1[i] : i \in 1..Len(p1)} = {p2[i] : i \in 1..Len(p2)}

\* lines 254-276
get_similarity ==
    \E key1 \in SimKeys, key2 \in SimKeys :
       LET cache_key == SimilarityKey(key1, key2)
       IN /\ key1 # key2
          /\ IF /\ cache_key \in DOMAIN similarity_cache
                /\ _is_cache_valid(similarity_cache[cache_key].timestamp, now)
             THEN /\ last_get' = GetRecord("get_similarity", cache_key, similarity_cache,
                                           now, "none", similarity_cache[cache_key].data)
                  /\ UNCHANGED similarity_cache
             ELSE \/ /\ similarity_cache' = Put(similarity_cache, cache_key, "0.83", now)
                     /\ last_get' = GetRecord("get_similarity", cache_key,
                                              similarity_cache, now, "ok", "0.83")
                  \/ \* compute_func raises: 0.0, nothing cached
                     /\ UNCHANGED similarity_cache
                     /\ last_get' = GetRecord("get_similarity", cache_key,
                                              similarity_cache, now, "failed", "0.0")
          /\ UNCHANGED <<now, tmdb_cache, user_data_cache, embedding_cache>>
          /\ UNCHANGED other_vars
          /\ UNCHANGED cascade_vars

\* lines 159-190
get_tmdb_page ==
    \E endpoint \in Endpoints, page \in Pages, params \in ParamLists :
       LET cache_key == PageKey(endpoint, page, params)
       IN /\ IF /\ cache_key \in DOMAIN tmdb_cache
                /\ _is_cache_valid(tmdb_cache[cache_key].timestamp, now)
             THEN /\ last_get' = GetRecord("get_tmdb_page", cache_key, tmdb_cache, now,
                                           "none", tmdb_cache[cache_key].data)
                  /\ UNCHANGED tmdb_cache
             ELSE \/ \E page_data \in Payloads :
                        /\ tmdb_cache' = Put(tmdb_cache, cache_key, page_data, now)
                        /\ last_get' = GetRecord("get_tmdb_page", cache_key, tmdb_cache,
                                                 now, "ok", page_data)
                  \/ \* another status, or requests.get raises
                     /\ UNCHANGED tmdb_cache
                     /\ last_get' = GetRecord("get_tmdb_page", cache_key, tmdb_cache,
                                              now, "failed", None)
          /\ UNCHANGED <<now, user_data_cache>>
          /\ UNCHANGED ext_vars
          /\ UNCHANGED cascade_vars

NextCacheKeys == Advance \/ get_similarity \/ get_tmdb_page \/ cleanup_expired

SpecCacheKeys == InitCache /\ [][NextCacheKeys]_vars

-----------------------------------------------------------------------------
(* CacheManager: construction, the pickle files, save_and_cleanup *)

\* the caches as _save_caches pickles them
MemoryCaches == [tmdb_cache |-> tmdb_cache, embedding_cache |-> embedding_cache,
                 similarity_cache |-> similarity_cache,
                 user_data_cache |-> user_data_cache]

\* _load_caches reads the four files in order inside one try: a failure at
\* file k leaves the caches read before it loaded and the others empty
LoadedUpTo(files, k) ==
    [tmdb_cache |-> IF k > 1 THEN files.tmdb_cache ELSE EmptyTable,
     embedding_cache |-> IF k > 2 THEN files.embedding_cache ELSE EmptyTable,
     similarity_cache |-> IF k > 3 THEN files.similarity_cache ELSE EmptyTable,
     user_data_cache |-> IF k > 4 THEN files.user_data_cache ELSE EmptyTable]

InitDurable ==
    /\ pc = "idle"
    /\ user_data = UserData("anshul", <<>>, [id \in {} |-> 7], "neutral")
    /\ fetched = <<>>
    /\ candidates = <<>>
    /\ recommendations = <<>>
    /\ cf_recs = <<>>
    /\ cf_ready = "unknown"
    /\ tiers_run = {}
    /\ tiers_failed = {}
    /\ result = <<>>
    /\ profile_table = PriorTable
    /\ stored = "unknown"
    /\ now = 0
    /\ tmdb_cache = EmptyTable
    /\ user_data_cache = EmptyTable
    /\ last_get = NoGet
    /\ embedding_cache = EmptyTable
    /\ similarity_cache = EmptyTable
    /\ \E mkdir_ok \in BOOLEAN, load_ok \in BOOLEAN, save_ok \in BOOLEAN :
          cache_dir = CacheDir("none", mkdir_ok, load_ok, save_ok, FALSE, NoFiles)
    /\ watched_movies = EmptyTable
    /\ last_regen = NoGet
    /\ readiness = [outcome |-> "none"]
    /\ similarity = NoGet
    /\ last_score = NoGet
    /\ threads = NoGet

\* CacheManager.__init__, lines 53-74, with _load_caches, lines 76-100
CacheManager_init ==
    /\ cache_dir.phase = "none"
    /\ IF ~cache_dir.mkdir_ok
       THEN \* self.cache_dir.mkdir(exist_ok=True) raises (a file named "cache", a
            \* directory that cannot be written): nothing catches it
            /\ cache_dir' = [cache_dir EXCEPT !.phase = "raised"]
            /\ UNCHANGED <<tmdb_cache, user_data_cache, embedding_cache, similarity_cache>>
       ELSE /\ cache_dir' = [cache_dir EXCEPT !.phase = "constructed"]
            /\ \E k \in IF ~cache_dir.saved THEN {1}
                        ELSE IF cache_dir.load_ok THEN {5} ELSE 1..4 :
                  LET loaded == LoadedUpTo(cache_dir.files, k)
                  IN /\ tmdb_cache' = loaded.tmdb_cache
                     /\ embedding_cache' = loaded.embedding_cache
                     /\ similarity_cache' = loaded.similarity_cache
                     /\ user_data_cache' = loaded.user_data_cache
    /\ last_get' = NoGet
    /\ UNCHANGED <<now, watched_movies, last_regen, readiness, similarity, last_score, threads>>
    /\ UNCHANGED cascade_vars

\* a get on the constructed manager
DurableGet ==
    /\ cache_dir.phase = "constructed"
    /\ get_tmdb_movie \/ get_user_data

\* _save_caches, lines 102-118: all four dumps sit in one try
SavedDir == IF cache_dir.save_ok
            THEN [cache_dir EXCEPT !.saved = TRUE, !.files = MemoryCaches]
            ELSE cache_dir

\* lines 355-359: cleanup_expired, then _save_caches
save_and_cleanup ==
    /\ cache_dir.phase = "constructed"
    /\ tmdb_cache' = Remove(tmdb_cache, Expired(tmdb_cache, now, TTL_HOURS))
    /\ embedding_cache' = Remove(embedding_cache, Expired(embedding_cache, now, TTL_HOURS))
    /\ similarity_cache' = Remove(similarity_cache,
                                  Expired(similarity_cache, now, TTL_HOURS))
    /\ user_data_cache' = Remove(user_data_cache,
                                 Expired(user_data_cache, now, USER_TTL_HOURS))
    /\ cache_dir' = IF cache_dir.save_ok
                    THEN [cache_dir EXCEPT !.saved = TRUE,
                             !.files = [tmdb_cache |-> tmdb_cache',
                                        embedding_cache |-> embedding_cache',
                                        similarity_cache |-> similarity_cache',
                                        user_data_cache |-> user_data_cache']]
                    ELSE cache_dir
    /\ last_get' = NoGet
    /\ UNCHANGED <<now, watched_movies, last_regen, readiness, similarity, last_score, threads>>
    /\ UNCHANGED cascade_vars

\* __del__, lines 361-366: the process ends, the caches are saved if they can be
CacheManager_del ==
    /\ cache_dir.phase = "constructed"
    /\ cache_dir' = [SavedDir EXCEPT !.phase = "none"]
    /\ tmdb_cache' = EmptyTable
    /\ embedding_cache' = EmptyTable
    /\ similarity_cache' = EmptyTable
    /\ user_data_cache' = EmptyTable
    /\ last_get' = NoGet
    /\ UNCHANGED <<now, watched_movies, last_regen, readiness, similarity, last_score, threads>>
    /\ UNCHANGED cascade_vars

NextDurable == CacheManager_init \/ DurableGet \/ save_and_cleanup \/ CacheManager_del
                 \/ Advance

SpecDurable == InitDurable /\ [][NextDurable]_vars

-----------------------------------------------------------------------------
(* The readiness assessment *)

\* largest counts the rating store answers with
MaxUsers == 5
MaxTotalRatings == 16
MaxActiveUsers == 3
MaxUserRatings == 4

TotalUsers == 2..MaxUsers
TotalRatings == 13..MaxTotalRatings
ActiveUsers == 0..MaxActiveUsers
UserRatings == 0..MaxUserRatings

\* mutant: the clause about active users is left out
_get_cf_decision_reason_NoActive(use_cf, total_users, total_ratings, current_user_ratings, users_with_enough_ratings) ==
    IF use_cf THEN [head |-> "Sufficient data", clauses |-> <<>>]
    ELSE [head |-> "Cold start",
          clauses |->
             (IF total_users < MIN_USERS_FOR_CF THEN <<"users">> ELSE <<>>)
             \o (IF total_ratings < MIN_TOTAL_RATINGS THEN <<"total ratings">> ELSE <<>>)
             \o (IF current_user_ratings < MIN_RATINGS_PER_USER
                 THEN <<"user ratings">> ELSE <<>>)]

\* lines 1215-1231: the reason, as its head and the clauses joined after it:
\* "Need 4 users", "Need 15 total ratings", "User needs 3 ratings", "Need more
\* active users"
_get_cf_decision_reason(use_cf, total_users, total_ratings, current_user_ratings, users_with_enough_ratings) ==
    IF use_cf THEN [head |-> "Sufficient data", clauses |-> <<>>]
    ELSE [head |-> "Cold start",
          clauses |->
             (IF total_users < MIN_USERS_FOR_CF THEN <<"users">> ELSE <<>>)
             \o (IF total_ratings < MIN_TOTAL_RATINGS THEN <<"total ratings">> ELSE <<>>)
             \o (IF current_user_ratings < MIN_RATINGS_PER_USER
                 THEN <<"user ratings">> ELSE <<>>)
             \o (IF users_with_enough_ratings < MIN_ACTIVE_USERS
                 THEN <<"active users">> ELSE <<>>)]

\* lines 1160-1213
assess_collaborative_filtering_readiness ==
    /\ \/ \* get_db_connection raises: the exception leaves the function
          readiness' = [outcome |-> "raised"]
       \/ \* a query fails: caught, 'Error: ...'
          readiness' = [outcome |-> "error", use_collaborative |-> FALSE,
                        reason |-> [head |-> "Error", clauses |-> <<>>]]
       \/ \E total_users \in TotalUsers, total_ratings \in TotalRatings,
             users_with_enough_ratings \in ActiveUsers, n \in UserRatings :
            \* the users with enough ratings are among the rating users
            /\ users_with_enough_ratings <= total_users
            /\ LET ud == UserData("anshul", <<>>, [id \in 1..n |-> 7], "neutral")
                current_user_ratings == Cardinality(DOMAIN ud.ratings)
                use_collaborative ==
                    UseCollaborative(total_users, total_ratings,
                                     users_with_enough_ratings, ud)
               IN readiness' =
                  [outcome |-> "assessed",
                   use_collaborative |-> use_collaborative,
                   total_users |-> total_users,
                   total_ratings |-> total_ratings,
                   current_user_ratings |-> current_user_ratings,
                   users_with_enough_ratings |-> users_with_enough_ratings,
                   reason |-> _get_cf_decision_reason(use_collaborative, total_users,
                                                      total_ratings, current_user_ratings,
                                                      users_with_enough_ratings)]
    /\ UNCHANGED <<embedding_cache, similarity_cache, cache_dir, watched_movies,
                   last_regen, similarity, last_score, threads>>
    /\ UNCHANGED cache_vars
    /\ UNCHANGED cascade_vars

SpecReadiness == InitCache /\ [][assess_collaborative_filtering_readiness]_vars

-----------------------------------------------------------------------------
(* User-user similarity of the collaborative filtering engine *)

\* columns of the rating matrix
MaxItems == 4

\* line 371
MIN_COMMON_ITEMS == 3

\* 1.0 in the unit of the correlation below
SIM_ONE == 100

\* a cell of the matrix: 0 from fillna(0), or a value of rating_map
MatrixEntries == {0, 3, 9}

MatrixItems == 1..MaxItems

\* a user is in the index only with at least one rating
MatrixRows == {r \in [MatrixItems -> MatrixEntries] : \E i \in MatrixItems : r[i] > 0}

\* lines 377-423: the pivot of the ratings (no ratings: the empty frame)
RatingMatrices == UNION {[index -> MatrixRows] : index \in SUBSET {1, 2}}

SimilarityUsers == {1, 2, 3}

\* mutant: only the first user's ratings select the items
CommonItems_FirstOnly(user1_ratings, user2_ratings) ==
    {i \in DOMAIN user1_ratings : user1_ratings[i] > 0}

\* line 437: (user1_ratings > 0) & (user2_ratings > 0)
CommonItems(user1_ratings, user2_ratings) ==
    {i \in DOMAIN user1_ratings : user1_ratings[i] > 0 /\ user2_ratings[i] > 0}

\* scipy.stats.pearsonr over the selected items: nan for a constant vector,
\* else r, kept as sign(r) * r^2 in hundredths (integer arithmetic)
pearsonr(x, y, items) ==
    LET n == Cardinality(items)
        sx == SumOver(x, items)
        sy == SumOver(y, items)
        sxy == SumOver([i \in items |-> x[i] * y[i]], items)
        sxx == SumOver([i \in items |-> x[i] * x[i]], items)
        syy == SumOver([i \in items |-> y[i] * y[i]], items)
        cov == n * sxy - sx * sy
        vx == n * sxx - sx * sx
        vy == n * syy - sy * sy
    IN IF vx = 0 \/ vy = 0 THEN [nan |-> TRUE, correlation |-> 0]
       ELSE [nan |-> FALSE,
             correlation |->
                 IF cov < 0 THEN -((cov * cov * SIM_ONE) \div (vx * vy))
                 ELSE (cov * cov * SIM_ONE) \div (vx * vy)]

\* mutant: two common items are enough
calculate_user_similarity_Two(rating_matrix, user_id, target_user_id) ==
    IF user_id = target_user_id THEN SIM_ONE
    ELSE IF user_id \notin DOMAIN rating_matrix \/ target_user_id \notin DOMAIN rating_matrix
    THEN 0
    ELSE LET user1_ratings == rating_matrix[user_id]
             user2_ratings == rating_matrix[target_user_id]
             common_items == CommonItems(user1_ratings, user2_ratings)
         IN IF Cardinality(common_items) < 2 THEN 0
            ELSE LET p == pearsonr(user1_ratings, user2_ratings, common_items)
                 IN IF p.nan THEN 0 ELSE p.correlation

\* lines 425-449
calculate_user_similarity(rating_matrix, user_id, target_user_id) ==
    IF user_id = target_user_id THEN SIM_ONE
    ELSE IF user_id \notin DOMAIN rating_matrix \/ target_user_id \notin DOMAIN rating_matrix
    THEN 0
    ELSE LET user1_ratings == rating_matrix[user_id]
             user2_ratings == rating_matrix[target_user_id]
             common_items == CommonItems(user1_ratings, user2_ratings)
         IN IF Cardinality(common_items) < MIN_COMMON_ITEMS THEN 0
            ELSE LET p == pearsonr(user1_ratings, user2_ratings, common_items)
                 IN IF p.nan THEN 0 ELSE p.correlation

similarity_frame ==
    /\ UNCHANGED <<embedding_cache, similarity_cache, cache_dir, watched_movies,
                   last_regen, readiness, last_score, threads>>
    /\ UNCHANGED cache_vars
    /\ UNCHANGED cascade_vars

\* the engine is handed the matrix built from the ratings
build_rating_matrix_from_db ==
    /\ similarity.op = "none"
    /\ \E rating_matrix \in RatingMatrices :
          similarity' = [op |-> "built", rating_matrix |-> rating_matrix]
    /\ similarity_frame

\* one call of calculate_user_similarity on that matrix
CalculateUserSimilarity ==
    /\ similarity.op = "built"
    /\ \E user_id \in SimilarityUsers, target_user_id \in SimilarityUsers :
          similarity' =
             [op |-> "calculated",
              rating_matrix |-> similarity.rating_matrix,
              user_id |-> user_id,
              target_user_id |-> target_user_id,
              value |-> calculate_user_similarity(similarity.rating_matrix,
                                                  user_id, target_user_id)]
    /\ similarity_frame

NextSimilarity == build_rating_matrix_from_db \/ CalculateUserSimilarity

SpecSimilarity == InitCache /\ [][NextSimilarity]_vars

-----------------------------------------------------------------------------
(* Predictions of the collaborative filtering engine.  Ratings, means and    *)
(* predictions are in hundredths of a rating point, similarities in          *)
(* hundredths.                                                               *)

\* users of the rating matrices the predictions are made on
MaxRaters == 4

\* line 371: min_common_users
MIN_COMMON_USERS == 3

\* 10 rating points, the upper end of max(0, min(10, .))
RATING_TEN == 1000

PredictionItems == 1..5

\* a row of ratings over the five items
RatingRow(a, b, c, d, e) == [i \in PredictionItems |-> <<a, b, c, d, e>>[i]]

\* rows of rating_map values (0: not rated)
PredictionRows ==
    { RatingRow(9, 9, 7, 0, 0),
      RatingRow(3, 3, 3, 5, 0),
      RatingRow(5, 5, 3, 9, 9),
      RatingRow(7, 7, 7, 9, 3),
      RatingRow(3, 9, 9, 7, 5),
      RatingRow(9, 3, 0, 0, 7),
      RatingRow(7, 7, 5, 9, 0),
      RatingRow(7, 7, 7, 7, 7) }

\* the frame of build_rating_matrix_from_db: the pivot of the ratings, the
\* empty frame (no ratings, or the except clause), and a frame whose rows
\* have no columns
PredictionMatrices ==
    [1..MaxRaters -> PredictionRows]
       \cup [2..MaxRaters -> PredictionRows]
       \cup {[u \in {} |-> <<>>]}
       \cup {[u \in 1..MaxRaters |-> <<>>]}

\* rating_matrix.columns
Columns(rating_matrix) ==
    IF DOMAIN rating_matrix = {} THEN {}
    ELSE DOMAIN rating_matrix[CHOOSE u \in DOMAIN rating_matrix : TRUE]

\* rating_matrix.empty
IsEmptyFrame(rating_matrix) == DOMAIN rating_matrix = {} \/ Columns(rating_matrix) = {}

\* a function with its values computed once
Computed(f) == f @@ <<>>

\* floor of the square root
ISqrt(n) == CHOOSE k \in 0..n : k * k <= n /\ (k + 1) * (k + 1) > n

\* the correlation r, in hundredths, from calculate_user_similarity's
\* sign(r) * r^2; only positive similarities are ever used as weights
SimilarityWeight(s) == IF s > 0 THEN Max(1, ISqrt(s * SIM_ONE)) ELSE 0

\* ratings[ratings > 0].mean()
RatedMean(ratings) ==
    LET rated == {i \in DOMAIN ratings : ratings[i] > 0}
    IN (100 * SumOver(ratings, rated)) \div Cardinality(rated)

\* mutant: the prediction is stored as computed
ClampRating_None(predicted_rating) == predicted_rating

\* max(0, min(10, predicted_rating))
ClampRating(predicted_rating) == Max(0, Min(RATING_TEN, predicted_rating))

\* sklearn cosine_similarity of two items over the users who rated both
cosine_similarity(rating_matrix, item1, item2, users) ==
    LET a == [u \in users |-> rating_matrix[u][item1]]
        b == [u \in users |-> rating_matrix[u][item2]]
        dot == SumOver([u \in users |-> a[u] * b[u]], users)
        na == SumOver([u \in users |-> a[u] * a[u]], users)
        nb == SumOver([u \in users |-> b[u] * b[u]], users)
    IN ISqrt((dot * dot * 10000) \div (na * nb))

\* lines 451-475
calculate_item_similarity(rating_matrix, item_id, target_item_id) ==
    IF item_id = target_item_id THEN SIM_ONE
    ELSE IF item_id \notin Columns(rating_matrix)
            \/ target_item_id \notin Columns(rating_matrix)
    THEN 0
    ELSE LET common_users == {u \in DOMAIN rating_matrix :
                                 /\ rating_matrix[u][item_id] > 0
                                 /\ rating_matrix[u][target_item_id] > 0}
         IN IF Cardinality(common_users) < MIN_COMMON_USERS THEN 0
            ELSE cosine_similarity(rating_matrix, item_id, target_item_id, common_users)

\* mutant: a candidate the target user has rated is predicted too
Unrated_Any(rating) == TRUE

\* line 504: target_user_ratings[movie_id] == 0
Unrated(rating) == rating = 0

\* lines 477-520: the predictions dict, as a function of the predicted movies
\* (the matrices have fewer than k_neighbors = 15 users, so the top k similar
\* users are all the users with a positive similarity)
get_user_based_recommendations(rating_matrix, user_id, candidate_movies) ==
    IF user_id \notin DOMAIN rating_matrix THEN <<>>
    ELSE
    LET target_user_ratings == rating_matrix[user_id]
        similarity_of ==
            Computed([other \in DOMAIN rating_matrix \ {user_id} |->
                SimilarityWeight(calculate_user_similarity(rating_matrix, user_id, other))])
        deviation ==
            Computed([other \in DOMAIN rating_matrix \ {user_id} |->
                [movie_id \in DOMAIN rating_matrix[other] |->
                    100 * rating_matrix[other][movie_id] - RatedMean(rating_matrix[other])]])
        top_similar_users == {other \in DOMAIN similarity_of : similarity_of[other] > 0}
        raters(movie_id) == {o \in top_similar_users : rating_matrix[o][movie_id] > 0}
        numerator(movie_id) ==
            SumOver([o \in raters(movie_id) |-> similarity_of[o] * deviation[o][movie_id]],
                    raters(movie_id))
        denominator(movie_id) ==
            SumOver([o \in raters(movie_id) |-> similarity_of[o]], raters(movie_id))
        predicted == {movie_id \in candidate_movies :
                         /\ movie_id \in Columns(rating_matrix)
                         /\ Unrated(target_user_ratings[movie_id])
                         /\ denominator(movie_id) > 0}
    IN IF top_similar_users = {} THEN <<>>
       ELSE [movie_id \in predicted |->
                ClampRating(RatedMean(target_user_ratings)
                               + numerator(movie_id) \div denominator(movie_id))]

\* mutant: a user outside the matrix is predicted 5.0 for every candidate
get_item_based_recommendations_Default(rating_matrix, user_id, candidate_movies) ==
    [movie_id \in candidate_movies |-> 500]

\* lines 522-566
get_item_based_recommendations(rating_matrix, user_id, candidate_movies) ==
    IF user_id \notin DOMAIN rating_matrix THEN <<>>
    ELSE
    LET user_ratings == rating_matrix[user_id]
        rated_movies == {i \in DOMAIN user_ratings : user_ratings[i] > 0}
        unrated == {movie_id \in candidate_movies :
                       /\ movie_id \in Columns(rating_matrix)
                       /\ user_ratings[movie_id] = 0}
        similarity_of ==
            Computed([movie_id \in unrated |->
                [rated \in rated_movies |->
                    calculate_item_similarity(rating_matrix, movie_id, rated)]])
        top_similar_items(movie_id) ==
            {rated \in rated_movies : similarity_of[movie_id][rated] > 0}
        numerator(movie_id) ==
            SumOver([r \in top_similar_items(movie_id) |->
                        similarity_of[movie_id][r] * 100 * user_ratings[r]],
                    top_similar_items(movie_id))
        denominator(movie_id) ==
            SumOver(similarity_of[movie_id], top_similar_items(movie_id))
        predicted == {movie_id \in unrated : top_similar_items(movie_id) # {}}
    IN IF rated_movies = {} THEN <<>>
       ELSE [movie_id \in predicted |->
                ClampRating(numerator(movie_id) \div denominator(movie_id))]

\* the candidates handed to the collaborative tier: 6 is in no matrix
PredictionCandidates ==
    { <<Movie(4, 70, 500, {}), Movie(5, 81, 300, {}), Movie(6, 65, 120, {})>>,
      <<Movie(5, 81, 300, {})>> }

PredictionUsers == {"anshul"}

\* a set of ids in ascending order
Ascending(S) ==
    [i \in 1..Cardinality(S) |-> CHOOSE x \in S : Cardinality({y \in S : y < x}) = i - 1]

\* lines 966-974 joined for lines 977-992: one entry per predicted item
JoinPredictions(user_based_predictions, item_based_predictions) ==
    LET all_predicted_items ==
            Ascending(DOMAIN user_based_predictions \cup DOMAIN item_based_predictions)
    IN [j \in 1..Len(all_predicted_items) |->
           [movie_id |-> all_predicted_items[j],
            user_score |-> IF all_predicted_items[j] \in DOMAIN user_based_predictions
                           THEN user_based_predictions[all_predicted_items[j]]
                           ELSE Absent,
            item_score |-> IF all_predicted_items[j] \in DOMAIN item_based_predictions
                           THEN item_based_predictions[all_predicted_items[j]]
                           ELSE Absent]]

prediction_frame ==
    /\ UNCHANGED <<embedding_cache, similarity_cache, cache_dir, watched_movies,
                   last_regen, readiness, last_score, threads>>
    /\ UNCHANGED cache_vars
    /\ UNCHANGED cascade_vars

\* the rating matrix the tier builds from the ratings (line 960)
BuildPredictionMatrix ==
    /\ similarity.op = "none"
    /\ \E rating_matrix \in PredictionMatrices :
          similarity' = [op |-> "built", rating_matrix |-> rating_matrix]
    /\ prediction_frame

\* lines 952-1027, with the two prediction calls of the engine on the matrix:
\* user_based and item_based are what the engine returns for this matrix,
\* combined is combined_predictions, returned is the tier's list
CollaborativeRecommendations ==
    /\ similarity.op = "built"
    /\ \E username \in PredictionUsers, cands \in PredictionCandidates, db_ok \in BOOLEAN :
        \E user_based_predictions \in
              {Computed(get_user_based_recommendations(
                  similarity.rating_matrix, user_id_map(username), Ids(cands)))},
           item_based_predictions \in
              {Computed(get_item_based_recommendations(
                  similarity.rating_matrix, user_id_map(username), Ids(cands)))} :
          LET rating_matrix == similarity.rating_matrix
              ud == UserData(username, <<>>, <<>>, "neutral")
              preds == Tuple(JoinPredictions(user_based_predictions,
                                             item_based_predictions))
          IN similarity' =
                IF ~db_ok
                THEN \* get_db_connection raises before the try statement
                     [op |-> "raised", rating_matrix |-> rating_matrix]
                ELSE [op |-> "predicted",
                      rating_matrix |-> rating_matrix,
                      user_id |-> ud.user_id,
                      candidate_movies |-> Ids(cands),
                      user_based |-> user_based_predictions,
                      item_based |-> item_based_predictions,
                      combined |->
                          IF IsEmptyFrame(rating_matrix) THEN <<>>
                          ELSE [j \in 1..Len(preds) |->
                                   [movie_id |-> preds[j].movie_id,
                                    combined_score |->
                                        CombinedScore(GetOrZero(preds[j].user_score),
                                                      GetOrZero(preds[j].item_score))]],
                      returned |->
                          IF IsEmptyFrame(rating_matrix) THEN <<>>
                          ELSE generate_collaborative_recommendations(ud, cands, preds)]
    /\ prediction_frame

NextPrediction == BuildPredictionMatrix \/ CollaborativeRecommendations

SpecPrediction == InitCache /\ [][NextPrediction]_vars

-----------------------------------------------------------------------------
(* Scoring one candidate in the two content tiers *)

ScoredUsers == Profiles \cup {"guest"}

ScoredMoods == Moods \cup {"neutral"}

\* vote_average in tenths; Absent: the candidate carries no vote_average
ScoredVotes == {Absent, 0, 45, 80, 100}

\* popularity in tenths
ScoredPopularities == {0, 500, 1000, 2500}

ScoredGenres ==
    { {}, {"Action"}, {"Action", "Thriller"}, {"Adventure", "Family", "Fantasy"},
      {"Comedy", "Drama", "Romance", "Family"} }

\* user_data['ratings']
ScoredRatings == { [id \in {} |-> 7], [id \in {550} |-> 9], [id \in {550, 155} |-> 3] }

\* _calculate_content_similarity, in hundredths; Absent: no user embedding
ScoredContent == {Absent, 0, 83, 100}

\* the loop body of generate_enhanced_content_recommendations (lines 1046-1072)
\* and of _generate_simple_content_recommendations (lines 1342-1383) for one
\* candidate: movie['vote_average'] raises on a candidate without the key,
\* movie.get('vote_average', 0) reads it as 0
ScoreCandidate ==
    /\ last_score.op = "none"
    /\ \E username \in ScoredUsers, mood \in ScoredMoods, vote_average \in ScoredVotes,
          popularity \in ScoredPopularities, genres \in ScoredGenres,
          ratings \in ScoredRatings, content_score \in ScoredContent :
          LET ud == UserData(username, <<>>, ratings, mood)
              movie == Movie(603, vote_average, popularity, genres)
              read == Movie(603, Max(vote_average, 0), popularity, genres)
          IN last_score' =
                [op |-> "scored",
                 movie |-> movie,
                 user_data |-> ud,
                 content_score |-> content_score,
                 enhanced |->
                     IF vote_average = Absent THEN [raised |-> TRUE, similarity_score |-> 0]
                     ELSE [raised |-> FALSE,
                           similarity_score |-> EnhancedScore(movie, ud, content_score)],
                 simple |-> SimpleScore(read, ud)]
    /\ UNCHANGED <<embedding_cache, similarity_cache, cache_dir, watched_movies,
                   last_regen, readiness, similarity, threads>>
    /\ UNCHANGED cache_vars
    /\ UNCHANGED cascade_vars

SpecScoring == InitCache /\ [][ScoreCandidate]_vars

-----------------------------------------------------------------------------
(* One CacheManager shared by two threads, and its files read by a second   *)
(* process.  The code takes no lock; a step is what runs between two thread *)
(* switches: one test, one subscript read, one subscript store, one del.    *)

\* the first thread is in get_user_data, the second one puts, invalidates,
\* cleans up or saves; `file` is user_data_cache.pkl, `other` is what a get in
\* the second process returned
SharedThreads(getter, mutator, file, other) ==
    [op |-> "shared", getter |-> getter, mutator |-> mutator, file |-> file,
     other |-> other]

Caller(at, outcome, value) == [pc |-> at, outcome |-> outcome, value |-> value]

Mutator(at, keys) == [pc |-> at, keys |-> keys]

File(state, content) == [state |-> state, content |-> content]

IsShared == threads.op = "shared"

shared_frame ==
    /\ UNCHANGED <<embedding_cache, similarity_cache, cache_dir, watched_movies,
                   last_regen, readiness, similarity, last_score>>
    /\ UNCHANGED <<now, tmdb_cache, last_get>>
    /\ UNCHANGED cascade_vars

\* the CacheManager is handed to a second thread
Share ==
    /\ threads.op = "none"
    /\ threads' = SharedThreads(Caller("idle", "none", None), Mutator("idle", {}),
                                File("absent", EmptyTable), Caller("idle", "none", None))
    /\ UNCHANGED user_data_cache
    /\ shared_frame

\* get_user_data, line 282: `if cache_key in self.user_data_cache`
GetTest ==
    /\ IsShared
    /\ threads.getter.pc = "idle"
    /\ \E username \in CacheUsers :
          threads' = [threads EXCEPT !.getter =
                         Caller(IF username \in DOMAIN user_data_cache
                                THEN "read" ELSE "fetch", "none", username)]
    /\ UNCHANGED user_data_cache
    /\ shared_frame

\* lines 283-286: `entry = self.user_data_cache[cache_key]`, outside any try,
\* then the age test and the return
GetRead ==
    /\ IsShared
    /\ threads.getter.pc = "read"
    /\ LET username == threads.getter.value
       IN threads' = [threads EXCEPT !.getter =
             IF username \notin DOMAIN user_data_cache
             THEN Caller("done", "KeyError", None)
             ELSE IF UserDataValid(user_data_cache[username].timestamp, now)
             THEN Caller("done", "hit", user_data_cache[username].data)
             ELSE Caller("fetch", "none", username)]
    /\ UNCHANGED user_data_cache
    /\ shared_frame

\* lines 289-303: the fetch and the store of the complete entry
GetFetch ==
    /\ IsShared
    /\ threads.getter.pc = "fetch"
    /\ \/ \E data \in Payloads :
            /\ user_data_cache' = Put(user_data_cache, threads.getter.value, data, now)
            /\ threads' = [threads EXCEPT !.getter = Caller("done", "miss", data)]
       \/ \* fetch_func raises: caught, None is returned
          /\ UNCHANGED user_data_cache
          /\ threads' = [threads EXCEPT !.getter = Caller("done", "miss", None)]
    /\ shared_frame

\* the caller has its answer
GetReturn ==
    /\ IsShared
    /\ threads.getter.pc = "done"
    /\ threads' = [threads EXCEPT !.getter = Caller("idle", "none", None)]
    /\ UNCHANGED user_data_cache
    /\ shared_frame

\* the second thread stores an entry (lines 294-297 of its own get)
PutByOther ==
    /\ IsShared
    /\ threads.mutator.pc = "idle"
    /\ \E username \in CacheUsers, data \in Payloads :
          user_data_cache' = Put(user_data_cache, username, data, now)
    /\ UNCHANGED threads
    /\ shared_frame

\* invalidate_user_cache, line 308: the test
InvalidateTest ==
    /\ IsShared
    /\ threads.mutator.pc = "idle"
    /\ \E username \in CacheUsers :
          /\ username \in DOMAIN user_data_cache
          /\ threads' = [threads EXCEPT !.mutator = Mutator("delete", {username})]
    /\ UNCHANGED user_data_cache
    /\ shared_frame

\* cleanup_expired, lines 338-339: the expired keys are listed
CleanupScan ==
    /\ IsShared
    /\ threads.mutator.pc = "idle"
    /\ threads' = [threads EXCEPT !.mutator =
                      Mutator("delete", {k \in DOMAIN user_data_cache :
                                  now - user_data_cache[k].timestamp > USER_TTL_HOURS})]
    /\ UNCHANGED user_data_cache
    /\ shared_frame

\* lines 309 and 340-341: `del self.user_data_cache[key]`
Delete ==
    /\ IsShared
    /\ threads.mutator.pc = "delete"
    /\ user_data_cache' = Remove(user_data_cache, threads.mutator.keys)
    /\ threads' = [threads EXCEPT !.mutator = Mutator("idle", {})]
    /\ shared_frame

\* _save_caches, line 114: open(..., 'wb') truncates the file
SaveOpen ==
    /\ IsShared
    /\ threads.mutator.pc = "idle"
    /\ threads' = [threads EXCEPT !.mutator = Mutator("saving", DOMAIN user_data_cache),
                                  !.file = File("partial", EmptyTable)]
    /\ UNCHANGED user_data_cache
    /\ shared_frame

\* line 115: pickle.dump; a dict that changed size while it is dumped raises
\* RuntimeError, which line 117 catches with the file left incomplete
SaveDump ==
    /\ IsShared
    /\ threads.mutator.pc = "saving"
    /\ threads' = [threads EXCEPT
                      !.mutator = Mutator("idle", {}),
                      !.file = IF DOMAIN user_data_cache = threads.mutator.keys
                               THEN File("complete", user_data_cache)
                               ELSE File("partial", EmptyTable)]
    /\ UNCHANGED user_data_cache
    /\ shared_frame

\* a second process constructs its CacheManager (_load_caches, lines 94-100:
\* pickle.load of an incomplete file raises and is caught) and gets a user
GetInOtherProcess ==
    /\ IsShared
    /\ \E username \in CacheUsers :
          LET loaded == IF threads.file.state = "complete"
                        THEN threads.file.content ELSE EmptyTable
          IN threads' = [threads EXCEPT !.other =
                IF /\ username \in DOMAIN loaded
                   /\ UserDataValid(loaded[username].timestamp, now)
                THEN Caller("done", "hit", loaded[username].data)
                ELSE Caller("done", "miss", None)]
    /\ UNCHANGED user_data_cache
    /\ shared_frame

NextShared ==
    \/ Share \/ Advance
    \/ GetTest \/ GetRead \/ GetFetch \/ GetReturn
    \/ PutByOther \/ InvalidateTest \/ CleanupScan \/ Delete
    \/ SaveOpen \/ SaveDump \/ GetInOtherProcess

SpecShared == InitCache /\ [][NextShared]_vars

-----------------------------------------------------------------------------
(* Two service instances over one cache directory.  Each instance loads     *)
(* user_data_cache.pkl when it is constructed and writes its whole          *)
(* dictionary back when it is destroyed; the other three caches are loaded  *)
(* and saved the same way and stay empty in these runs.                     *)

Instances == {"A", "B"}

\* most watch events (each one makes add_incremental_recommendations invalidate)
MaxEvents == 2

\* phase: "new", "running" or "exited"; loaded_stale: the last load of this
\* instance returned, as a valid entry, a snapshot that had been invalidated
\* and saved before
Instance(phase, cache, pending, loaded_stale) ==
    [phase |-> phase, user_data_cache |-> cache, pending |-> pending,
     loaded_stale |-> loaded_stale]

\* file: what user_data_cache.pkl holds; events: the watch events so far;
\* stale: the entries some instance invalidated and then saved without
SharedFiles(inst, file, events, stale) ==
    [op |-> "instances", inst |-> inst, file |-> file, events |-> events,
     stale |-> stale]

IsInstances == threads.op = "instances"

\* two services are set up on the same cache directory
Deploy ==
    /\ threads.op = "none"
    /\ threads' = SharedFiles([i \in Instances |-> Instance("new", EmptyTable, {}, FALSE)],
                              EmptyTable, 0, {})
    /\ UNCHANGED user_data_cache
    /\ shared_frame

\* CacheManager.__init__ with _load_caches, lines 94-97
StartInstance ==
    /\ IsInstances
    /\ \E i \in Instances :
          /\ threads.inst[i].phase \in {"new", "exited"}
          /\ threads' = [threads EXCEPT !.inst[i] =
                Instance("running", threads.file, {},
                         \E k \in DOMAIN threads.file :
                            /\ threads.file[k] \in threads.stale
                            /\ UserDataValid(threads.file[k].timestamp, now))]
    /\ UNCHANGED user_data_cache
    /\ shared_frame

\* get_user_data on a miss or an expired entry, lines 288-299: the snapshot
\* fetched is the one after the watch events so far
InstanceGet ==
    /\ IsInstances
    /\ \E i \in Instances, username \in CacheUsers :
          LET cache == threads.inst[i].user_data_cache
          IN /\ threads.inst[i].phase = "running"
             /\ ~(username \in DOMAIN cache
                    /\ UserDataValid(cache[username].timestamp, now))
             /\ threads' = [threads EXCEPT !.inst[i].user_data_cache =
                               Put(cache, username, threads.events, now)]
    /\ UNCHANGED user_data_cache
    /\ shared_frame

\* a watch event, then add_incremental_recommendations lines 1538-1540:
\* invalidate_user_cache (lines 305-314) and the fetch of the new snapshot
InstanceAddIncremental ==
    /\ IsInstances
    /\ threads.events < MaxEvents
    /\ \E i \in Instances, username \in CacheUsers :
          LET cache == threads.inst[i].user_data_cache
              dropped == IF username \in DOMAIN cache THEN {cache[username]} ELSE {}
          IN /\ threads.inst[i].phase = "running"
             /\ threads' = [threads EXCEPT
                   !.events = threads.events + 1,
                   !.inst[i].pending = threads.inst[i].pending \cup dropped,
                   !.inst[i].user_data_cache =
                       Put(Remove(cache, {username}), username, threads.events + 1, now)]
    /\ UNCHANGED user_data_cache
    /\ shared_frame

\* CacheManager.__del__, lines 361-366, with _save_caches, lines 113-115:
\* pickle.dump of the whole dictionary over the file
ExitInstance ==
    /\ IsInstances
    /\ \E i \in Instances :
          /\ threads.inst[i].phase = "running"
          /\ threads' = [threads EXCEPT
                !.file = threads.inst[i].user_data_cache,
                !.stale = threads.stale \cup threads.inst[i].pending,
                !.inst[i] = Instance("exited", EmptyTable, {}, threads.inst[i].loaded_stale)]
    /\ UNCHANGED user_data_cache
    /\ shared_frame

NextInstances ==
    \/ Deploy \/ Advance
    \/ StartInstance \/ InstanceGet \/ InstanceAddIncremental \/ ExitInstance

SpecInstances == InitCache /\ [][NextInstances]_vars

-----------------------------------------------------------------------------
(* Regeneration after watch events: the watched_movies table, the cached    *)
(* profile snapshot, and the two ways of regenerating a profile's list.     *)

\* most watch events a user has in the table
MaxWatched == 2

WatchUsers == {"anshul"}

\* movies a user can watch: three of the curated catalog
Watchable == {550, 155, 278}

\* `count` of add_incremental_recommendations
IncrementCounts == {3, 10}

\* SELECT tmdb_id ... FROM watched_movies WHERE user_id = %s ORDER BY watched_at DESC
WatchedOf(username) ==
    IF username \in DOMAIN watched_movies THEN watched_movies[username] ELSE <<>>

\* what fetch_user_data reads from the database now (no rating given, no mood)
fetch_user_data(username) ==
    UserData(username, WatchedOf(username), [id \in {} |-> 7], "neutral")

\* the tiers after the collaborative one, over the candidates
CascadeFrom(cf, ud, cands, embedded) ==
    LET Enhanced(r) ==
            IF TierGate("enhanced", r)
            THEN Merge(r, generate_enhanced_content_recommendations(ud, cands, embedded))
            ELSE r
        Simple(r) ==
            IF TierGate("simple", r)
            THEN Merge(r, _generate_simple_content_recommendations(ud, cands))
            ELSE r
        Random(r) == IF TierGate("random", r) THEN RandomFallback(r, cands, ud) ELSE r
    IN Take(Tuple(Random(Tuple(Simple(Tuple(Enhanced(cf)))))), MAX_RECS)

\* generate_recommendations from end to end when no tier raises: cf is what
\* the collaborative tier contributed (<<>> when the readiness test fails)
generate_recommendations(ud, tmdb, cf, embedded) ==
    LET got == get_candidate_movies(ud, tmdb)
    IN CascadeFrom(cf, ud, IF got = <<>> THEN _get_emergency_fallback_movies(ud) ELSE got,
                   embedded)

\* the recommendations a regeneration computes from a snapshot: the catalog
\* provider is down and the rating store is too small for the collaborative tier
Regenerated(ud) ==
    generate_recommendations(ud, [ok |-> FALSE, pages |-> <<>>], <<>>, FALSE)

\* SELECT tmdb_id ... WHERE is_active = TRUE
ActiveIds(table) == {id \in DOMAIN table : table[id].is_active}

RegenRecord(op, username, generated, written, ret) ==
    [op |-> op, username |-> username,
     watched |-> {WatchedOf(username)[i] : i \in 1..Len(WatchedOf(username))},
     generated |-> generated, written |-> written, ret |-> ret]

\* the backend records a watch event (most recent first)
RecordWatch ==
    /\ \E username \in WatchUsers, movie \in Watchable :
          /\ Len(WatchedOf(username)) < MaxWatched
          /\ \A i \in 1..Len(WatchedOf(username)) : WatchedOf(username)[i] # movie
          /\ watched_movies' =
                [u \in DOMAIN watched_movies \cup {username} |->
                    IF u = username THEN <<movie>> \o WatchedOf(username)
                    ELSE watched_movies[u]]
    /\ UNCHANGED <<embedding_cache, similarity_cache, cache_dir, last_regen,
                   readiness, similarity, last_score, threads>>
    /\ UNCHANGED cache_vars
    /\ UNCHANGED cascade_vars

\* lines 1502-1522, with get_user_data_from_backend (691-760) and
\* store_recommendations_to_profile (1390-1465)
refresh_recommendations_for_profile ==
    \E username \in WatchUsers, db_ok \in BOOLEAN :
       LET hit == /\ username \in DOMAIN user_data_cache
                  /\ UserDataValid(user_data_cache[username].timestamp, now)
           ud == IF hit THEN user_data_cache[username].data
                 ELSE fetch_user_data(username)
       IN \E recs \in {Regenerated(ud)} :
          /\ user_data_cache' = IF ~hit /\ db_ok
                                THEN Put(user_data_cache, username, ud, now)
                                ELSE user_data_cache
          /\ IF ~hit /\ ~db_ok
             THEN \* fetch_user_data gives {}: "No user data found"
                  /\ last_regen' = RegenRecord("refresh", username, {}, {}, "False")
                  /\ UNCHANGED profile_table
             ELSE IF recs = <<>>
             THEN /\ last_regen' = RegenRecord("refresh", username, {}, {}, "False")
                  /\ UNCHANGED profile_table
             ELSE IF ~db_ok
             THEN \* get_db_connection raises in store_recommendations_to_profile
                  /\ last_regen' = RegenRecord("refresh", username, Ids(recs), {}, "raised")
                  /\ UNCHANGED profile_table
             ELSE /\ profile_table' = store_recommendations_to_profile(profile_table, recs)
                  /\ last_regen' = RegenRecord("refresh", username, Ids(recs), Ids(recs),
                                               "True")
          /\ UNCHANGED <<pc, user_data, fetched, candidates, recommendations, cf_recs,
                         cf_ready, tiers_run, tiers_failed, result, stored>>
          /\ UNCHANGED <<now, tmdb_cache, last_get>>
          /\ UNCHANGED <<embedding_cache, similarity_cache, cache_dir, watched_movies,
                         readiness, similarity, last_score, threads>>

\* lines 1532-1569, with invalidate_user_cache (305-314), get_profile_recommendations
\* (1467-1500) and add_recommendations_to_profile (1571-1644)
\* one call add_incremental_recommendations(username, count)
AddIncremental(username, count, db_ok) ==
       LET ud == fetch_user_data(username)
           existing_tmdb_ids == ActiveIds(profile_table)
       IN \E new_recommendations \in {Regenerated(ud)} :
       LET filtered_recs ==
               Take(KeepIdx(new_recommendations,
                            {i \in 1..Len(new_recommendations) :
                                new_recommendations[i].tmdb_id \notin existing_tmdb_ids}),
                    count)
       IN /\ embedding_cache' = Remove(embedding_cache,
                                       KeysToRemove(embedding_cache, username))
          /\ user_data_cache' = IF db_ok
                                THEN \* line 1548 assigns into the dict the cache holds
                                     Put(user_data_cache, username,
                                         [ud EXCEPT !.count = count * 3], now)
                                ELSE Remove(user_data_cache, {username})
          /\ IF ~db_ok
             THEN /\ last_regen' = RegenRecord("add", username, {}, {}, "False")
                  /\ UNCHANGED profile_table
             ELSE IF new_recommendations = <<>> \/ filtered_recs = <<>>
             THEN /\ last_regen' = RegenRecord("add", username, Ids(new_recommendations),
                                               {}, "False")
                  /\ UNCHANGED profile_table
             ELSE /\ profile_table' = Upsert(profile_table, filtered_recs)
                  /\ last_regen' = RegenRecord("add", username, Ids(new_recommendations),
                                               Ids(filtered_recs), "True")
          /\ UNCHANGED <<pc, user_data, fetched, candidates, recommendations, cf_recs,
                         cf_ready, tiers_run, tiers_failed, result, stored>>
          /\ UNCHANGED <<now, tmdb_cache, last_get>>
          /\ UNCHANGED <<similarity_cache, cache_dir, watched_movies, readiness,
                         similarity, last_score, threads>>

add_incremental_recommendations ==
    \E username \in WatchUsers, count \in IncrementCounts, db_ok \in BOOLEAN :
       AddIncremental(username, count, db_ok)

\* the genres column of a stored row: rec.get('genres', []) of the curated movie
StoredGenres(tmdb_id) ==
    LET all == Concat([g \in 1..5 |->
                   fallback_data(<<"Action", "Comedy", "Horror", "Science Fiction",
                                   "Drama">>[g])], 1)
        at == {i \in 1..Len(all) : all[i].tmdb_id = tmdb_id}
    IN IF at = {} THEN {} ELSE all[CHOOSE i \in at : TRUE].genres

\* UPDATE ... SET is_active = FALSE WHERE tmdb_id = %s
SetInactive(row) == [row EXCEPT !.is_active = FALSE]

\* the two UPDATE statements of handle_movie_dislike, lines 1659-1668: the
\* score of every other active row sharing a genre with the disliked row is
\* multiplied by 0.7 and its reason gets the suffix
Dislike(table, tmdb_id) ==
    LET off == [id \in DOMAIN table |->
                   IF id = tmdb_id THEN SetInactive(table[id]) ELSE table[id]]
    IN [id \in DOMAIN off |->
           IF /\ id # tmdb_id
              /\ tmdb_id \in DOMAIN off
              /\ StoredGenres(id) \cap StoredGenres(tmdb_id) # {}
              /\ off[id].is_active
           THEN [off[id] EXCEPT !.similarity_score = (off[id].similarity_score * 7) \div 10,
                                !.reduced = off[id].reduced + 1]
           ELSE off[id]]

\* most suffixes a reason carries when a dislike is handled
MaxReduced == 2

\* the profiles a dislike is sent for: "guest" has no profile table
DislikeUsers == WatchUsers \cup {"guest"}

\* the movies disliked: recommendations the profile is shown
DislikedMovies == {278, 155}

DislikeRecord(username, tmdb_id, ret) ==
    [op |-> "dislike", username |-> username, tmdb_id |-> tmdb_id, ret |-> ret]

\* lines 1646-1679
handle_movie_dislike ==
    /\ \E username \in DislikeUsers, tmdb_id \in DislikedMovies :
          /\ tmdb_id \in ActiveIds(profile_table)
          /\ \A id \in DOMAIN profile_table : profile_table[id].reduced < MaxReduced
          /\ IF username \notin Profiles
             THEN \* "Unknown profile"
                  /\ last_regen' = DislikeRecord(username, tmdb_id, "False")
                  /\ UNCHANGED profile_table
             ELSE \/ \* get_db_connection raises (line 689), outside the try
                     /\ last_regen' = DislikeRecord(username, tmdb_id, "raised")
                     /\ UNCHANGED profile_table
                  \/ \* an UPDATE fails: rollback
                     /\ last_regen' = DislikeRecord(username, tmdb_id, "False")
                     /\ UNCHANGED profile_table
                  \/ /\ last_regen' = DislikeRecord(username, tmdb_id, "True")
                     /\ profile_table' = Dislike(profile_table, tmdb_id)
    /\ UNCHANGED <<pc, user_data, fetched, candidates, recommendations, cf_recs,
                   cf_ready, tiers_run, tiers_failed, result, stored>>
    /\ UNCHANGED cache_vars
    /\ UNCHANGED <<embedding_cache, similarity_cache, cache_dir, watched_movies,
                   readiness, similarity, last_score, threads>>

NextWatch == Advance \/ RecordWatch \/ refresh_recommendations_for_profile
               \/ add_incremental_recommendations

SpecWatch == InitCache /\ [][NextWatch]_vars

NextDislike == refresh_recommendations_for_profile
                 \/ add_incremental_recommendations \/ handle_movie_dislike

SpecDislike == InitCache /\ [][NextDislike]_vars

-----------------------------------------------------------------------------
(* Properties of the cascade (checked under Spec) *)

Returned == pc \in {"Returned", "Stored"}

Reasons(recs) == {recs[i].recommendation_reason : i \in 1..Len(recs)}

UnwatchedCandidates == {id \in Ids(candidates) : id \notin History(user_data)}

\* C1: the list generate_recommendations returns holds no two recommendations
\* with the same tmdb_id, whichever tiers produced them.
NoDuplicateIds ==
    Returned => \A i, j \in 1..Len(result) :
                    i # j => result[i].tmdb_id # result[j].tmdb_id

\* C2: with a non-empty candidate list, generate_recommendations returns at
\* least min(10, number of unwatched candidates) recommendations (counted as
\* distinct items), whichever tiers fail or return nothing.
CascadeGuarantee ==
    (Returned /\ candidates # <<>>) =>
        Cardinality(Ids(result)) >= Min(10, Cardinality(UnwatchedCandidates))

\* every tier before the last resort raised, and the call still served ten
AllTiersFailedStillServed ==
    /\ pc = "Returned"
    /\ tiers_failed = {"collaborative", "enhanced", "simple"}
    /\ Cardinality(UnwatchedCandidates) > 10
    /\ Len(result) >= 10

\* C3: an item that entered the running list with a collaborative score keeps
\* it: no other entry of the returned list gives that tmdb_id another score,
\* and the row the result sink stores for it carries the collaborative score.
MergePriorityKept ==
    Returned =>
        \A i \in 1..Len(cf_recs) :
           /\ \A j \in 1..Len(result) :
                 result[j].tmdb_id = cf_recs[i].tmdb_id =>
                    /\ result[j].similarity_score = cf_recs[i].similarity_score
                    /\ result[j].recommendation_reason = "collaborative"
           /\ (stored = "True" /\ cf_recs[i].tmdb_id \in Ids(result)) =>
                 profile_table[cf_recs[i].tmdb_id].similarity_score
                    = cf_recs[i].similarity_score

\* C4: the returned list is sorted by similarity_score, descending.
ResultSortedDescending ==
    Returned => \A i, j \in 1..Len(result) :
                    i < j => result[i].similarity_score >= result[j].similarity_score

\* C5: neither the running list nor the returned list ever holds more than 50.
AtMostFifty == Len(recommendations) <= 50 /\ Len(result) <= 50

\* more than 50 candidates, a short collaborative list topped up to exactly 50
CapReached ==
    /\ pc = "Returned"
    /\ Len(candidates) > 50
    /\ cf_recs # <<>>
    /\ Len(cf_recs) < 20
    /\ Len(result) = 50

\* C7: nothing in the running list or in the returned list is an item of the
\* profile's user_history.
NoWatchedRecommended ==
    /\ \A i \in 1..Len(recommendations) :
          recommendations[i].tmdb_id \notin History(user_data)
    /\ \A i \in 1..Len(result) : result[i].tmdb_id \notin History(user_data)

\* a user who watched catalog items is served by three tiers
WatchedUserServed ==
    /\ pc = "Returned"
    /\ 278 \in History(user_data)
    /\ {"collaborative", "enhanced", "random"} \subseteq Reasons(result)

\* C8: an exception raised inside the readiness assessment or a tier never
\* leaves generate_recommendations: every step of the cascade, raising or not,
\* goes on to the next tier, and the call ends by returning.
ExceptionsCaught ==
    [][/\ pc' # "Raised"
       /\ pc = "TryCollaborative" => pc' = "TryEnhancedContent"
       /\ pc = "TryEnhancedContent" => pc' = "TrySimpleContent"
       /\ pc = "TrySimpleContent" => pc' = "TryRandomFallback"
       /\ pc = "TryRandomFallback" => pc' = "Done"
       /\ pc = "Done" => pc' = "Returned"]_vars

\* the readiness assessment and both content tiers raised; a list came back
EveryTierRaised ==
    /\ pc = "Returned"
    /\ cf_ready = "raised"
    /\ {"enhanced", "simple"} \subseteq tiers_failed
    /\ result # <<>>

\* C9: when get_candidate_movies returns an empty list the candidates are the
\* emergency catalog minus the watched items, and the cascade runs over them:
\* the content tiers and the last resort are entered and every emergency
\* candidate is returned.
EmergencySubstitution ==
    (pc # "Start" /\ fetched = <<>>) =>
        /\ Ids(candidates) = {278, 238, 155, 603, 13} \ History(user_data)
        /\ Returned => /\ {"enhanced", "simple", "random"} \subseteq tiers_run
                       /\ Ids(result) = Ids(candidates)

\* the fetch came back empty and the emergency catalog was served
EmergencyServed ==
    /\ pc = "Returned"
    /\ fetched = <<>>
    /\ candidates # <<>>
    /\ Ids(result) = Ids(candidates)

-----------------------------------------------------------------------------
(* Properties of the cache (checked under SpecCache) *)

\* C10: a get of a key whose entry is younger than its TTL (24 hours for
\* catalog entries, 1 hour for profile snapshots) returns the stored value
\* without fetching; a get of a key whose entry is a TTL old or older is a
\* miss: it fetches and returns what the fetch gave (None when the fetch
\* failed), never the stale value, while the entry stays in the dictionary.
CacheCorrectness ==
    last_get.op # "none" =>
        LET ttl == IF last_get.op = "get_tmdb_movie" THEN 24 ELSE 1
            cache == IF last_get.op = "get_tmdb_movie" THEN tmdb_cache
                     ELSE user_data_cache
        IN /\ (last_get.had_entry /\ last_get.age < ttl) =>
                 /\ last_get.fetch = "none"
                 /\ last_get.ret = last_get.entry_data
           /\ (last_get.had_entry /\ last_get.age >= ttl) =>
                 /\ last_get.fetch # "none"
                 /\ last_get.key \in DOMAIN cache
                 /\ last_get.fetch = "failed" => last_get.ret = None
                 /\ last_get.fetch = "empty" => last_get.ret = "{}"
                 /\ last_get.fetch = "ok" =>
                       /\ last_get.ret = cache[last_get.key].data
                       /\ cache[last_get.key].timestamp = now

\* an expired catalog entry, a refetch that failed: None, and the entry remains
StaleEntryMissed ==
    /\ last_get.op = "get_tmdb_movie"
    /\ last_get.had_entry
    /\ last_get.age >= 24
    /\ last_get.fetch = "failed"
    /\ last_get.ret = None
    /\ last_get.key \in DOMAIN tmdb_cache

-----------------------------------------------------------------------------
(* Properties of the per-user cache entries (checked under SpecUserCache) *)

\* the embedding keys get_user_embeddings makes for a user id
UserEmbeddingKeys(user_id) == {UserEmbeddingKey(user_id, t) : t \in TextLists}

\* C11: after invalidate_user_cache(username) the cache holds neither the
\* user's profile snapshot nor an embedding entry that get_user_embeddings
\* made for that user (for the user id the service maps the name to).
InvalidationComplete ==
    [][\A username \in InvalidateNames :
          InvalidateUser(username) =>
             /\ username \notin DOMAIN user_data_cache'
             /\ \A k \in UserEmbeddingKeys(user_id_map(username)) :
                   k \notin DOMAIN embedding_cache']_vars

\* C12: invalidate_user_cache(username) leaves unchanged every snapshot of
\* another user name, every user embedding of another user id (one that is
\* neither the id of that user nor written like the name), every item
\* embedding and every catalog and similarity entry.
InvalidationFrame ==
    [][\A username \in InvalidateNames :
          InvalidateUser(username) =>
             /\ \A k \in DOMAIN user_data_cache \ {username} :
                   k \in DOMAIN user_data_cache'
                      /\ user_data_cache'[k] = user_data_cache[k]
             /\ \A user_id \in EmbeddingUserIds :
                   (user_id # user_id_map(username) /\ Str(user_id) # Chars(username)) =>
                      \A k \in UserEmbeddingKeys(user_id) \cap DOMAIN embedding_cache :
                         k \in DOMAIN embedding_cache'
                            /\ embedding_cache'[k] = embedding_cache[k]
             /\ \A text \in ItemTexts :
                   EmbeddingKey(text) \in DOMAIN embedding_cache =>
                      EmbeddingKey(text) \in DOMAIN embedding_cache'
             /\ tmdb_cache' = tmdb_cache
             /\ similarity_cache' = similarity_cache]_vars

\* C13: a profile snapshot and a user embedding are a miss once they are 1
\* hour old; an item embedding is a hit until it is 24 hours old.
ShortTtlForUserData ==
    last_get.op \in {"get_user_data", "get_user_embeddings", "get_embedding"} =>
        LET ttl == IF last_get.op = "get_embedding" THEN 24 ELSE 1
        IN /\ (last_get.had_entry /\ last_get.age >= ttl) => last_get.fetch # "none"
           /\ (last_get.had_entry /\ last_get.age < ttl) => last_get.fetch = "none"

-----------------------------------------------------------------------------
(* Properties of regeneration (checked under SpecWatch) *)

\* C14: a regeneration of a user's recommendations, by refresh or by add,
\* neither generates nor stores an item whose watch event was in the
\* watched_movies table when the regeneration was called.
RegenerationSeesWatchEvents ==
    last_regen.op # "none" =>
        /\ last_regen.generated \cap last_regen.watched = {}
        /\ last_regen.written \cap last_regen.watched = {}

-----------------------------------------------------------------------------
(* Properties of the cache keys (checked under SpecCacheKeys) *)

\* C15: logically identical requests use one cache entry: get_similarity(a, b)
\* and get_similarity(b, a) have the same key, and the cache never holds two
\* page entries for one endpoint, page and parameter set given in two orders.
KeysAreCanonical ==
    /\ \A a \in SimKeys, b \in SimKeys : SimilarityKey(a, b) = SimilarityKey(b, a)
    /\ \A endpoint \in Endpoints, page \in Pages, p1 \in ParamLists, p2 \in ParamLists :
          (/\ SameRequest(p1, p2)
           /\ PageKey(endpoint, page, p1) \in DOMAIN tmdb_cache
           /\ PageKey(endpoint, page, p2) \in DOMAIN tmdb_cache)
          => PageKey(endpoint, page, p1) = PageKey(endpoint, page, p2)

-----------------------------------------------------------------------------
(* Properties of the durable tier (checked under SpecDurable) *)

\* C16: no failure of the durable tier (making the cache directory, loading
\* or saving a cache file) raises to the caller of CacheManager.
DurableFailuresContained == cache_dir.phase # "raised"

-----------------------------------------------------------------------------
(* Properties of the readiness assessment (checked under SpecReadiness) *)

Assessed == readiness.outcome = "assessed"

\* how often a clause occurs in the reason
Clauses(c) ==
    Cardinality({i \in 1..Len(readiness.reason.clauses) : readiness.reason.clauses[i] = c})

\* C17: assess_collaborative_filtering_readiness answers use_collaborative =
\* true exactly when there are at least 4 rating users, at least 15 ratings,
\* at least 2 users with 3 or more ratings, and the current user has at least
\* 3 ratings.
ReadinessIffAllFour ==
    Assessed =>
        (readiness.use_collaborative <=>
            /\ readiness.total_users >= 4
            /\ readiness.total_ratings >= 15
            /\ readiness.users_with_enough_ratings >= 2
            /\ readiness.current_user_ratings >= 3)

\* all four counts exactly at their thresholds: ready
ReadyAtThresholds ==
    /\ Assessed
    /\ readiness.use_collaborative
    /\ readiness.total_users = 4
    /\ readiness.total_ratings = 15
    /\ readiness.users_with_enough_ratings = 2
    /\ readiness.current_user_ratings = 3

\* C18: when readiness is false the reason holds exactly one clause for each
\* threshold that failed and none for a threshold that passed, so it is never
\* empty; with 3 rating users it holds the user-count clause.
ReasonNamesFailedThresholds ==
    (Assessed /\ ~readiness.use_collaborative) =>
        /\ readiness.reason.head = "Cold start"
        /\ readiness.reason.clauses # <<>>
        /\ Clauses("users") = (IF readiness.total_users < 4 THEN 1 ELSE 0)
        /\ Clauses("total ratings") = (IF readiness.total_ratings < 15 THEN 1 ELSE 0)
        /\ Clauses("user ratings") = (IF readiness.current_user_ratings < 3 THEN 1 ELSE 0)
        /\ Clauses("active users") =
              (IF readiness.users_with_enough_ratings < 2 THEN 1 ELSE 0)
        /\ Len(readiness.reason.clauses) =
              Clauses("users") + Clauses("total ratings") + Clauses("user ratings")
                 + Clauses("active users")

\* 3 rating users, everything else sufficient: the one clause is the user count
ThreeUsersNamed ==
    /\ Assessed
    /\ ~readiness.use_collaborative
    /\ readiness.total_users = 3
    /\ readiness.total_ratings >= 15
    /\ readiness.users_with_enough_ratings >= 2
    /\ readiness.current_user_ratings >= 3
    /\ readiness.reason.clauses = <<"users">>

-----------------------------------------------------------------------------
(* Properties of the user similarity (checked under SpecSimilarity) *)

Calculated == similarity.op = "calculated" /\ similarity.user_id # similarity.target_user_id

\* the items a user has rated (none for a user outside the matrix)
RatedItems(u) ==
    IF u \in DOMAIN similarity.rating_matrix
    THEN {i \in MatrixItems : similarity.rating_matrix[u][i] > 0}
    ELSE {}

\* C19: for every rating matrix and two distinct users,
\* calculate_user_similarity(M, u1, u2) equals
\* calculate_user_similarity(M, u2, u1), absent users and forced zeros included.
UserSimilaritySymmetric ==
    Calculated =>
        similarity.value =
            calculate_user_similarity(similarity.rating_matrix,
                                      similarity.target_user_id, similarity.user_id)

\* a correlation was computed and is negative, with different rated sets
NegativeCorrelationComputed ==
    /\ Calculated
    /\ similarity.value < 0
    /\ RatedItems(similarity.user_id) # RatedItems(similarity.target_user_id)

\* C20: two distinct users whose rated items intersect in fewer than 3 items
\* get exactly 0.0, whatever the rating values.
FewCommonItemsGiveZero ==
    (/\ Calculated
     /\ Cardinality(RatedItems(similarity.user_id)
                       \cap RatedItems(similarity.target_user_id)) < 3)
        => similarity.value = 0

\* two users sharing exactly 2 rated items, rated differently, get 0.0
TwoSharedItemsZero ==
    /\ Calculated
    /\ Cardinality(RatedItems(similarity.user_id)
                      \cap RatedItems(similarity.target_user_id)) = 2
    /\ \E i, j \in RatedItems(similarity.user_id) \cap RatedItems(similarity.target_user_id) :
          /\ similarity.rating_matrix[similarity.user_id][i]
                # similarity.rating_matrix[similarity.user_id][j]
          /\ similarity.rating_matrix[similarity.target_user_id][i]
                # similarity.rating_matrix[similarity.target_user_id][j]
    /\ similarity.value = 0

-----------------------------------------------------------------------------
(* Properties of the collaborative predictions (checked under SpecPrediction) *)

Predicted == similarity.op = "predicted"

\* C21: every rating predicted by get_user_based_recommendations lies in
\* [0, 10], for every matrix, neighbor set and candidate.
UserBasedPredictionInRange ==
    Predicted =>
        \A movie_id \in DOMAIN similarity.user_based :
            /\ similarity.user_based[movie_id] >= 0
            /\ similarity.user_based[movie_id] <= 1000

\* a prediction above 10 before the cut is returned as 10
PredictionCutAtTen ==
    /\ Predicted
    /\ \E movie_id \in DOMAIN similarity.user_based :
          similarity.user_based[movie_id] = 1000

\* C23: an item with both predictions gets 0.6 * userBased + 0.4 * itemBased
\* whatever their values, an item with exactly one gets that one * 0.8, and
\* an item with none gets no collaborative score.
CombinationPolicy ==
    Predicted =>
        \A j \in 1..Len(similarity.combined) :
            LET movie_id == similarity.combined[j].movie_id
                both == /\ movie_id \in DOMAIN similarity.user_based
                        /\ movie_id \in DOMAIN similarity.item_based
            IN /\ movie_id \in DOMAIN similarity.user_based \cup DOMAIN similarity.item_based
               /\ similarity.combined[j].combined_score =
                     IF both
                     THEN 6 * similarity.user_based[movie_id]
                             + 4 * similarity.item_based[movie_id]
                     ELSE IF movie_id \in DOMAIN similarity.user_based
                     THEN 8 * similarity.user_based[movie_id]
                     ELSE 8 * similarity.item_based[movie_id]

\* C24: on a rating matrix with no rows or no columns both prediction calls
\* return an empty mapping and the collaborative tier returns an empty list.
EmptyMatrixGivesNothing ==
    (Predicted /\ IsEmptyFrame(similarity.rating_matrix)) =>
        /\ similarity.user_based = <<>>
        /\ similarity.item_based = <<>>
        /\ similarity.returned = <<>>

\* a matrix with rows and no columns was predicted on
RowsWithoutColumnsPredicted ==
    /\ Predicted
    /\ DOMAIN similarity.rating_matrix # {}
    /\ Columns(similarity.rating_matrix) = {}
    /\ similarity.returned = <<>>

-----------------------------------------------------------------------------
(* Properties of the content scores (checked under SpecScoring) *)

Scored == last_score.op = "scored"

\* C22: every similarity_score of the enhanced-content and of the
\* simple-content tier lies in [0, 1], for every candidate, profile and mood
\* weight, also when the mood multiplier pushes the sum above 1.
ContentScoresInUnitInterval ==
    Scored =>
        /\ last_score.simple >= 0
        /\ last_score.simple <= 10000
        /\ last_score.enhanced.similarity_score >= 0
        /\ last_score.enhanced.similarity_score <= 10000

\* a mood weight above 1 and both scores cut to exactly 1
BoostedScoresCut ==
    /\ Scored
    /\ MoodMultiplier(last_score.user_data) > 10
    /\ ~last_score.enhanced.raised
    /\ last_score.enhanced.similarity_score = 10000
    /\ last_score.simple = 10000

\* C25: for quality q in (0,10], popularity p > 0, categories C, non-empty
\* preferred categories P and mood weight w (1.0 for an unweighted mood) the
\* simple score is min(1, (0.4*q/10 + 0.2*min(p/100, 1) + 0.4*|C \cap P|/|P|) * w),
\* to four decimals.
SimpleScoreFormula ==
    (/\ Scored
     /\ last_score.movie.vote_average > 0
     /\ last_score.movie.popularity > 0
     /\ last_score.user_data.favourite_genres # <<>>)
        => LET q == last_score.movie.vote_average
               p == last_score.movie.popularity
               P == {last_score.user_data.favourite_genres[i] :
                        i \in 1..Len(last_score.user_data.favourite_genres)}
               k == Cardinality(last_score.movie.genres \cap P)
               weights == last_score.user_data.profile_config.mood_weights
               w == IF last_score.user_data.mood \in DOMAIN weights
                    THEN weights[last_score.user_data.mood] ELSE 10
               \* the sum times w, in units of 1 / (100000 * |P|)
               num == ((40 * q + 2 * Min(p, 1000)) * Cardinality(P) + 4000 * k) * w
               den == 10 * Cardinality(P)
           IN IF num >= 10000 * den THEN last_score.simple = 10000
              ELSE 2 * Abs(last_score.simple * den - num) <= den

\* q = 8, p = 50, half of the preferred categories matched, w = 1.2: 0.744
SimpleScoreExample ==
    /\ Scored
    /\ last_score.movie.vote_average = 80
    /\ last_score.movie.popularity = 500
    /\ last_score.movie.genres = {"Action", "Thriller"}
    /\ last_score.user_data.username = "anshul"
    /\ last_score.user_data.mood = "happy"
    /\ last_score.simple = 7440

-----------------------------------------------------------------------------
(* Properties of the profile table (checked under Spec and SpecWatch) *)

\* the rows of the table that are active
ActiveRows == {id \in DOMAIN profile_table : profile_table[id].is_active}

\* C26: after a successful store_recommendations_to_profile(username, recs)
\* the active rows are exactly the tmdb_ids of recs: a previously active item
\* absent from recs is no longer active, every item of recs is active with a
\* score given for it in recs, and the table has one row per tmdb_id.
StoreReplacesAll ==
    (pc = "Stored" /\ stored = "True") =>
        /\ ActiveRows = Ids(result)
        /\ \A id \in Ids(result) :
              \E i \in 1..Len(result) :
                 /\ result[i].tmdb_id = id
                 /\ profile_table[id].similarity_score = result[i].similarity_score

\* the row that was active before (278) is gone, the row a dislike had
\* deactivated (550) is active again
OldRowReplaced ==
    /\ pc = "Stored"
    /\ stored = "True"
    /\ 278 \notin Ids(result)
    /\ 278 \notin ActiveRows
    /\ 550 \in ActiveRows

\* C27: a successful add_incremental_recommendations(username, count) adds
\* exactly count recommendations that were not active before and leaves the
\* active ones active: the number of active recommendations grows by count.
IncrementAddsExactlyCount ==
    [][\A username \in WatchUsers, count \in IncrementCounts :
          (AddIncremental(username, count, TRUE) /\ last_regen'.ret = "True") =>
              /\ last_regen'.written \cap ActiveIds(profile_table) = {}
              /\ ActiveIds(profile_table) \subseteq ActiveIds(profile_table')
              /\ Cardinality(ActiveIds(profile_table')) =
                    Cardinality(ActiveIds(profile_table)) + count]_vars

-----------------------------------------------------------------------------
(* Properties of the shared cache (checked under SpecShared) *)

\* C28: a get that runs concurrently with a put, an invalidate or a save
\* returns either a complete previously stored value or a miss.
SharedGetCompleteOrMiss ==
    IsShared =>
        /\ threads.getter.outcome \in {"none", "hit", "miss"}
        /\ threads.getter.outcome = "hit" => threads.getter.value \in Payloads
        /\ threads.other.outcome \in {"none", "hit", "miss"}
        /\ threads.other.outcome = "hit" => threads.other.value \in Payloads

-----------------------------------------------------------------------------
(* Order and gating of the tiers (checked under Spec) *)

\* C29: in every run of generate_recommendations the enhanced-content tier
\* runs exactly when the running total is below 20 where it is reached, the
\* simple-content tier exactly when it is below 15, the random fallback
\* exactly when it is below 10.
TierGating ==
    [][/\ pc = "TryEnhancedContent" =>
             (("enhanced" \in tiers_run') <=> Len(recommendations) < 20)
       /\ pc = "TrySimpleContent" =>
             (("simple" \in tiers_run') <=> Len(recommendations) < 15)
       /\ pc = "TryRandomFallback" =>
             (("random" \in tiers_run') <=> Len(recommendations) < 10)]_vars

\* a finished run in which the enhanced and the simple tier ran (the total was
\* below 15 after the enhanced tier) and the random fallback did not (the
\* total had reached 10)
SimpleRanRandomSkipped ==
    /\ pc = "Returned"
    /\ "enhanced" \in tiers_run
    /\ "simple" \in tiers_run
    /\ "random" \notin tiers_run
    /\ Len(recommendations) >= 10

\* C30: the collaborative tier runs in a call only after the readiness
\* assessment of that call answered use_collaborative = true; when it answers
\* false or raises, nothing is predicted and no recommendation carries a
\* collaborative score.
CollaborativeOnlyWhenReady ==
    /\ "collaborative" \in tiers_run => cf_ready = "yes"
    /\ (pc \notin {"idle", "Start", "TryCollaborative"} /\ cf_ready \in {"no", "raised"}) =>
          /\ cf_recs = <<>>
          /\ "collaborative" \notin Reasons(recommendations)
          /\ "collaborative" \notin Reasons(result)

\* the assessment said no and the content tiers served the call
NotReadyServedByContent ==
    /\ pc = "Returned"
    /\ cf_ready = "no"
    /\ "collaborative" \notin tiers_run
    /\ result # <<>>
    /\ Reasons(result) \cap {"enhanced", "simple"} # {}

-----------------------------------------------------------------------------
(* The cascade as a progression (checked under SpecCascade) *)

\* the place of a control state in the order of generate_recommendations
Position(state) ==
    CASE state = "Start" -> 1
      [] state = "TryCollaborative" -> 2
      [] state = "TryEnhancedContent" -> 3
      [] state = "TrySimpleContent" -> 4
      [] state = "TryRandomFallback" -> 5
      [] state = "Done" -> 6
      [] state = "Returned" -> 7
      [] state = "Stored" -> 8
      [] OTHER -> 0

-----------------------------------------------------------------------------
(* Which candidates get a user-based prediction (checked under SpecPrediction) *)

\* the users get_user_based_recommendations selects as neighbors
SelectedNeighbors(rating_matrix, user_id) ==
    IF user_id \notin DOMAIN rating_matrix THEN {}
    ELSE {other \in DOMAIN rating_matrix \ {user_id} :
             calculate_user_similarity(rating_matrix, user_id, other) > 0}

\* C32: the result of get_user_based_recommendations contains a candidate
\* exactly when it is a column of the matrix, the target user has not rated
\* it, and at least one selected neighbor has rated it.
UserBasedContainsExactly ==
    Predicted =>
        LET rating_matrix == similarity.rating_matrix
            user_id == similarity.user_id
        IN DOMAIN similarity.user_based =
              {movie_id \in similarity.candidate_movies :
                  /\ movie_id \in Columns(rating_matrix)
                  /\ user_id \in DOMAIN rating_matrix
                  /\ rating_matrix[user_id][movie_id] = 0
                  /\ \E other \in SelectedNeighbors(rating_matrix, user_id) :
                        rating_matrix[other][movie_id] > 0}

\* of two candidates the target user has not rated, one is predicted and the
\* other, which no selected neighbor rated, is left out
UnseenByNeighborsLeftOut ==
    /\ Predicted
    /\ SelectedNeighbors(similarity.rating_matrix, similarity.user_id) # {}
    /\ \E c1, c2 \in similarity.candidate_movies \cap Columns(similarity.rating_matrix) :
          /\ c1 \in DOMAIN similarity.user_based
          /\ c2 \notin DOMAIN similarity.user_based
          /\ similarity.rating_matrix[similarity.user_id][c2] = 0

-----------------------------------------------------------------------------
(* Candidates with a missing field (checked under SpecScoring) *)

\* C33: a candidate without a quality score makes neither content tier fail:
\* the enhanced and the simple tier both give it a score.
MissingFieldScoredByBothTiers ==
    (Scored /\ last_score.movie.vote_average = Absent) =>
        /\ ~last_score.enhanced.raised
        /\ last_score.simple > 0

\* C34: without an embedding model the enhanced tier gives every candidate the
\* score the simple tier gives it for the same profile.
EnhancedDegradesToSimple ==
    (Scored /\ last_score.content_score = Absent /\ ~last_score.enhanced.raised) =>
        last_score.enhanced.similarity_score = last_score.simple

-----------------------------------------------------------------------------
(* Frame of the regeneration calls (checked under SpecWatch) *)

\* C35: after add_incremental_recommendations returns, the profile record the
\* cache holds (the object get_user_data returned) has the field values it
\* was fetched with.
ProfileRecordNotMutated ==
    [][\A username \in WatchUsers, count \in IncrementCounts :
          AddIncremental(username, count, TRUE) =>
              user_data_cache'[username].data = fetch_user_data(username)]_vars

-----------------------------------------------------------------------------
(* Dislikes (checked under SpecDislike) *)

\* C36: a recommendation deactivated by handle_movie_dislike stays out of the
\* active set through every later refresh_recommendations_for_profile and
\* add_incremental_recommendations (rows are deactivated by nothing else).
DislikedStaysInactive ==
    [][\A tmdb_id \in DOMAIN profile_table :
          ~profile_table[tmdb_id].is_active =>
              tmdb_id \notin ActiveIds(profile_table')]_vars

-----------------------------------------------------------------------------
(* Failures of the result sink (checked under Spec) *)

SinkFailuresReturnFalse ==
    pc = "Stored" => stored \in {"True", "False", "skipped"}

-----------------------------------------------------------------------------
(* The sweep and the getters (checked under SpecCache) *)

\* C39: immediately after cleanup_expired every entry still present in one of
\* the four caches is one a get at the same instant treats as valid, also at
\* an age equal to the TTL.
SweepAgreesWithGet ==
    [][cleanup_expired =>
          /\ \A k \in DOMAIN tmdb_cache' : _is_cache_valid(tmdb_cache'[k].timestamp, now')
          /\ \A k \in DOMAIN embedding_cache' :
                _is_cache_valid(embedding_cache'[k].timestamp, now')
          /\ \A k \in DOMAIN similarity_cache' :
                _is_cache_valid(similarity_cache'[k].timestamp, now')
          /\ \A k \in DOMAIN user_data_cache' :
                UserDataValid(user_data_cache'[k].timestamp, now')]_vars

-----------------------------------------------------------------------------
(* Two instances and the durable cache (checked under SpecInstances) *)

\* C40: once an instance has invalidated the snapshot of a user and saved, no
\* later load of the durable cache returns that snapshot as a valid entry,
\* whatever the order in which the two instances save.
InvalidationNotUndone ==
    IsInstances => \A i \in Instances : ~threads.inst[i].loaded_stale

=============================================================================
